---- MODULE Spec2Model ----
(***************************************************************************)
(* music-files-organizer: the Discogs catalog client (get_ok), the release *)
(* matcher (match_release_with_music_files, match_music_files), the change *)
(* planner (calculate_changes, get_cleanup_changes) and the applier (work).*)
(* Each component has its own variables and its own specification; the     *)
(* variables of the other components stay at their initial values.         *)
(***************************************************************************)
EXTENDS Integers, Sequences, FiniteSets, TLC

\* Option<T>::None for numeric fields (track number, disc, duration, header).
None == -1

VARIABLES
    g_pc,        \* position inside get_ok: "send", "recv", "sleep", or a final one
    g_response,  \* the response being handled: [status, limit, used]
    g_sends,     \* number of http_client.get(url).send() calls made
    g_log,       \* statuses of the responses received so far, in order
    g_sleeps     \* the thread::sleep calls made: <<[limit, used, num, den]>>

httpVars == <<g_pc, g_response, g_sends, g_log, g_sleeps>>

VARIABLES
    r_release,     \* the refined release given to match_release_with_music_files
    r_files,       \* the group: a sequence of MusicFile
    r_simplified,  \* simplified_match
    r_called,      \* match_release_with_music_files has returned
    r_result       \* its return value

releaseVars == <<r_release, r_files, r_simplified, r_called, r_result>>

VARIABLES
    mm_input,      \* the music_files given to match_music_files, in order
    mm_force,      \* force_discogs_release_id: NoId, or the string given
    mm_index,      \* what the catalog's search answers (see SearchIndexes)
    mm_pc,         \* position inside match_music_files
    mm_todo,       \* keys of files_grouped_by_parent_path not yet iterated
    mm_path,       \* key of the group being matched
    mm_files,      \* files of the group being matched
    mm_match,      \* match_result of the group being matched
    mm_param,      \* index into common_search_params of the flat_map
    mm_phase,      \* which part of the chain of one parameter set is being pulled
    mm_items,      \* search results not yet pulled
    mm_taken,      \* items the take(5) has let through for this parameter set
    mm_checked,    \* checked_release_urls
    mm_release_id, \* release_id of the manual loop
    mm_prompts,    \* prompts answered for this group
    mm_result,     \* result: the DiscogsReleaseMatchResult pushed so far
    mm_trace       \* catalog requests, matches and prompts for this group, in order

matcherVars == <<mm_input, mm_force, mm_index, mm_pc, mm_todo, mm_path, mm_files,
                 mm_match, mm_param, mm_phase, mm_items, mm_taken, mm_checked,
                 mm_release_id, mm_prompts, mm_result, mm_trace>>

autoVars == <<mm_param, mm_phase, mm_items, mm_taken, mm_checked>>
envVars == <<mm_input, mm_force, mm_index>>

VARIABLES
    p_fs,            \* the filesystem: the set of existing paths (files and directories)
    p_file_changes,  \* file_changes: what get_file_changes returned
    p_allowed,       \* allowed_change_types
    p_planned,       \* calculate_changes has returned
    p_changes        \* the ChangeList it returned

plannerVars == <<p_fs, p_file_changes, p_allowed, p_planned, p_changes>>

VARIABLES
    w_allow_questions,  \* args.allow_questions
    w_force_fsync,      \* args.force_fsync
    w_pc,               \* where work stands
    w_chunk,            \* number of the chunk being processed
    w_index,            \* entries of the current list already handled
    w_path,             \* cleanup's cursor while it walks up the parents
    w_log               \* what happened for the current chunk, in order

workVars == <<w_allow_questions, w_force_fsync, w_pc, w_chunk, w_index, w_path, w_log>>

VARIABLES
    fc_results,      \* discogs_match_results given to get_file_changes
    fc_output_path,  \* output_path: Nothing, or Some(path)
    fc_pc,           \* position inside get_file_changes
    fc_items,        \* match_items the for loop has not reached yet
    fc_result        \* result: the Vec<MusicFileChange> built so far, then returned

fileChangeVars == <<fc_results, fc_output_path, fc_pc, fc_items, fc_result>>

vars == <<httpVars, releaseVars, matcherVars, plannerVars, workVars, fileChangeVars>>

\* What each component leaves alone: the variables of the other components.
outsideHttp == <<releaseVars, matcherVars, plannerVars, workVars, fileChangeVars>>
outsideRelease == <<httpVars, matcherVars, plannerVars, workVars, fileChangeVars>>
outsideMatcher == <<httpVars, releaseVars, plannerVars, workVars, fileChangeVars>>
outsidePlanner == <<httpVars, releaseVars, matcherVars, workVars, fileChangeVars>>
outsideWork == <<httpVars, releaseVars, matcherVars, fileChangeVars>>
outsideFileChanges == <<httpVars, releaseVars, matcherVars, plannerVars, workVars>>

\* get_file_changes is not running
IdleFileChanges ==
    /\ fc_results = <<>>
    /\ fc_output_path = <<>>
    /\ fc_pc = "idle"
    /\ fc_items = <<>>
    /\ fc_result = <<>>

(***************************************************************************)
(* Catalog client: DiscogsMatcher::get_ok (src/discogs/matcher.rs)         *)
(***************************************************************************)

\* Bound on the number of sends of one get_ok call explored by the model.
MaxSends == 3


NoResponse == [status |-> 0, limit |-> None, used |-> None]

\* Status codes the server answers with.
Statuses == {200, 204, 404, 429, 500}
\* Values of X-Discogs-Ratelimit / X-Discogs-Ratelimit-Used (None: header absent).
LimitValues == {None, 2, 60}
UsedValues == {None, 0, 1, 2, 60, 61}

\* StatusCode::is_success: 200..=299
is_success(status) == status >= 200 /\ status <= 299

TOO_MANY_REQUESTS == 429

\* f64::min / f64::max on the header values
f64_min(a, b) == IF a < b THEN a ELSE b
f64_max(a, b) == IF a > b THEN a ELSE b

\* let skip = f64::min(rate_limit_used - rate_limit, 0f64) + 1f64;
skip(rate_limit, rate_limit_used) == f64_min(rate_limit_used - rate_limit, 0) + 1

\* skip * 60f64 / rate_limit, kept exact as numerator and denominator (seconds).
sleep_num(rate_limit, rate_limit_used) == skip(rate_limit, rate_limit_used) * 60
sleep_den(rate_limit, rate_limit_used) == rate_limit

\* Duration::from_secs_f64 panics on a negative or non-finite number of seconds.
DurationIsValid(num, den) == den > 0 /\ num >= 0

\* the arm of `if status.is_success() .. else if status == TOO_MANY_REQUESTS .. else`
RetryAnyFailure(status) == ~is_success(status)
ShouldRetry(status) == status = TOO_MANY_REQUESTS

InitHttp ==
    /\ g_pc = "send"
    /\ g_response = NoResponse
    /\ g_sends = 0
    /\ g_log = <<>>
    /\ g_sleeps = <<>>

\* let response = self.http_client.get(url.clone()).send()?;
GetOkSend ==
    /\ UNCHANGED outsideHttp
    /\ g_pc = "send"
    /\ g_sends < MaxSends
    /\ g_sends' = g_sends + 1
    /\ \/ \E st \in Statuses, l \in LimitValues, u \in UsedValues :
            /\ g_response' = [status |-> st, limit |-> l, used |-> u]
            /\ g_log' = Append(g_log, st)
            /\ g_pc' = "recv"
       \/ \* transport failure: `?` returns the error
          /\ g_pc' = "err_transport"
          /\ UNCHANGED <<g_response, g_log>>
    /\ UNCHANGED g_sleeps

\* if status.is_success() { break Ok(response); }
GetOkSuccess ==
    /\ UNCHANGED outsideHttp
    /\ g_pc = "recv"
    /\ is_success(g_response.status)
    /\ g_pc' = "ok"
    /\ UNCHANGED <<g_response, g_sends, g_log, g_sleeps>>

\* else if status == StatusCode::TOO_MANY_REQUESTS { .. thread::sleep(..) }
GetOkTooManyRequests ==
    /\ UNCHANGED outsideHttp
    /\ g_pc = "recv"
    /\ ~is_success(g_response.status)
    /\ ShouldRetry(g_response.status)
    /\ LET l == g_response.limit
           u == g_response.used
       IN IF l = None \/ u = None
          THEN \* header_as_number(..)? : "No required header"
               /\ g_pc' = "err_header"
               /\ UNCHANGED g_sleeps
          ELSE IF ~DurationIsValid(sleep_num(l, u), sleep_den(l, u))
          THEN /\ g_pc' = "panic"
               /\ UNCHANGED g_sleeps
          ELSE /\ g_pc' = "sleep"
               /\ g_sleeps' = Append(g_sleeps,
                      [limit |-> l, used |-> u,
                       num |-> sleep_num(l, u), den |-> sleep_den(l, u)])
    /\ UNCHANGED <<g_response, g_sends, g_log>>

\* thread::sleep returns and the loop starts over
GetOkWake ==
    /\ UNCHANGED outsideHttp
    /\ g_pc = "sleep"
    /\ g_pc' = "send"
    /\ UNCHANGED <<g_response, g_sends, g_log, g_sleeps>>

\* else { bail!("Expected successful status code but got {}", status) }
GetOkBail ==
    /\ UNCHANGED outsideHttp
    /\ g_pc = "recv"
    /\ ~is_success(g_response.status)
    /\ ~ShouldRetry(g_response.status)
    /\ g_pc' = "err_status"
    /\ UNCHANGED <<g_response, g_sends, g_log, g_sleeps>>

GetOkFinal == {"ok", "err_transport", "err_header", "err_status", "panic"}

Last(s) == s[Len(s)]

\* C6 (stated for well-formed 429 responses): every HTTP 429 response that carries
\* both rate-limit headers with a positive limit is followed by a sleep and
\* another send of the same URL; get_ok never ends on such a response.
C6_Every429IsRetried ==
    (/\ g_response.status = TOO_MANY_REQUESTS
     /\ g_response.limit # None /\ g_response.limit > 0
     /\ g_response.used # None /\ g_response.used >= 0)
        => g_pc \in {"recv", "sleep", "send", "err_transport"}

\* C7: a response whose status is neither success nor 429 ends get_ok with an
\* error after exactly that attempt: it is the last response ever received, no
\* send follows it and no sleep is performed for it.
C7_OtherStatusIsFatal ==
    \A i \in DOMAIN g_log :
        (~is_success(g_log[i]) /\ g_log[i] # TOO_MANY_REQUESTS)
            => /\ i = Len(g_log)
               /\ g_sends = i
               /\ Len(g_sleeps) = i - 1
               /\ g_pc \in {"recv", "err_status"}

\* C7 witness: get_ok has failed on a hard status after at least one 429 retry.
C7_Witness ==
    /\ g_pc = "err_status"
    /\ Len(g_log) >= 2
    /\ g_log[1] = TOO_MANY_REQUESTS
    /\ Last(g_log) = 404

\* C8: on a 429 with header values limit and used the sleep before the retry is
\* (max(used - limit, 0) + 1) * 60 / limit seconds.
C8_SleepIsMaxFormula ==
    \A i \in DOMAIN g_sleeps :
        LET s == g_sleeps[i]
        IN s.num * s.limit = (f64_max(s.used - s.limit, 0) + 1) * 60 * s.den

\* C24: for rate-limit header values limit > 0 and used >= 0 received on a 429,
\* the computed sleep is at least 60/limit seconds (so it is not negative): the
\* sleep of the response being handled, and every sleep made.
C24_SleepAtLeastMinimum ==
    /\ (g_pc = "recv" /\ g_response.status = TOO_MANY_REQUESTS
            /\ g_response.limit > 0 /\ g_response.used >= 0)
          => sleep_num(g_response.limit, g_response.used) * g_response.limit
                >= 60 * sleep_den(g_response.limit, g_response.used)
    /\ \A i \in DOMAIN g_sleeps :
          (g_sleeps[i].limit > 0 /\ g_sleeps[i].used >= 0)
             => g_sleeps[i].num * g_sleeps[i].limit >= 60 * g_sleeps[i].den

(***************************************************************************)
(* String similarity (src/util/string_extensions.rs).  A title is a        *)
(* sequence of character codes that is already in simplified form          *)
(* (lower-case ASCII letters and digits), so simplify leaves it unchanged. *)
(***************************************************************************)

Min2(a, b) == IF a < b THEN a ELSE b
Max2(a, b) == IF a > b THEN a ELSE b

\* strsim::damerau_levenshtein: edit distance with adjacent transpositions.
RECURSIVE damerau_levenshtein(_, _)
damerau_levenshtein(a, b) ==
    IF Len(a) = 0 THEN Len(b)
    ELSE IF Len(b) = 0 THEN Len(a)
    ELSE LET a1 == SubSeq(a, 1, Len(a) - 1)
             b1 == SubSeq(b, 1, Len(b) - 1)
             cost == IF Last(a) = Last(b) THEN 0 ELSE 1
             plain == Min2(Min2(damerau_levenshtein(a1, b) + 1,
                                damerau_levenshtein(a, b1) + 1),
                           damerau_levenshtein(a1, b1) + cost)
         IN IF /\ Len(a) > 1 /\ Len(b) > 1
               /\ Last(a) = b[Len(b) - 1] /\ a[Len(a) - 1] = Last(b)
            THEN Min2(plain,
                      damerau_levenshtein(SubSeq(a, 1, Len(a) - 2),
                                          SubSeq(b, 1, Len(b) - 2)) + 1)
            ELSE plain

\* SkimMatcherV2::fuzzy_match(choice, pattern).is_some(): the pattern's characters
\* occur in the choice in order.
RECURSIVE fuzzy_match(_, _)
fuzzy_match(choice, pattern) ==
    IF Len(pattern) = 0 THEN TRUE
    ELSE IF Len(choice) = 0 THEN FALSE
    ELSE IF Head(choice) = Head(pattern)
         THEN fuzzy_match(Tail(choice), Tail(pattern))
         ELSE fuzzy_match(Tail(choice), pattern)

\* similarity_score = normalized_damerau_levenshtein = 1 - distance / max(len),
\* kept exact as the fraction score_num / score_den.
score_den(a, b) == Max2(Max2(Len(a), Len(b)), 1)
score_num(a, b) == score_den(a, b) - damerau_levenshtein(a, b)

\* a.similarity_score(x) > a.similarity_score(y)
score_greater(a, x, y) ==
    score_num(a, x) * score_den(a, y) > score_num(a, y) * score_den(a, x)

\* const SIMILAR_SCORE: f64 = 0.85f64 (in hundredths)
SIMILAR_SCORE == 85

is_similar(a, b) ==
    \/ score_num(a, b) * 100 >= SIMILAR_SCORE * score_den(a, b)
    \/ fuzzy_match(a, b)
    \/ fuzzy_match(b, a)

(***************************************************************************)
(* Release matching: DiscogsMatcher::match_release_with_music_files        *)
(***************************************************************************)

\* Bound on the number of files of one group (one directory) and on the number
\* of tracks of a release.
MaxFiles == 2

\* const DURATION_DIFF_THRESHOLD: Duration = Duration::from_secs(30);
DURATION_DIFF_THRESHOLD == 30

\* Option<String>::None for a title tag.
NoTitle == <<>>

\* track_title is tag.title(), or the file stem when there is no title tag.
track_title(music_file) ==
    IF music_file.title # NoTitle THEN music_file.title ELSE music_file.stem

disc_position_matched(music_file, track) ==
    /\ (IF music_file.disc = None THEN 1 ELSE music_file.disc) = track.disc
    /\ music_file.track # None
    /\ music_file.track = track.position

title_matched(music_file, track) == is_similar(track_title(music_file), track.title)

duration_matched(music_file, track) ==
    /\ music_file.duration # None
    /\ track.duration # None
    /\ LET duration1 == Min2(music_file.duration, track.duration)
           duration2 == Max2(music_file.duration, track.duration)
       IN duration2 - duration1 < DURATION_DIFF_THRESHOLD

\* an acceptance test that takes title or duration alone and checks the position
\* only of files that carry a track number
track_accepted_title_or_duration(music_file, track, simplified_match) ==
    IF simplified_match
    THEN disc_position_matched(music_file, track)
    ELSE /\ title_matched(music_file, track) \/ duration_matched(music_file, track)
         /\ music_file.track = None \/ music_file.track = track.position

\* the closure given to `find`
track_accepted(music_file, track, simplified_match) ==
    IF simplified_match
    THEN disc_position_matched(music_file, track)
    ELSE \/ title_matched(music_file, track) /\ duration_matched(music_file, track)
         \/ title_matched(music_file, track) /\ disc_position_matched(music_file, track)

\* track_list.iter().sorted_by(similarity descending): a stable sort, so tracks
\* of equal score keep their list order.  The result is a sequence of indices.
RECURSIVE sorted_by_title_similarity_of(_, _, _)
sorted_by_title_similarity_of(title, track_list, rest) ==
    IF rest = {} THEN <<>>
    ELSE LET first == CHOOSE i \in rest : \A j \in rest \ {i} :
                          \/ score_greater(title, track_list[i].title, track_list[j].title)
                          \/ /\ ~score_greater(title, track_list[j].title, track_list[i].title)
                             /\ i < j
         IN <<first>> \o sorted_by_title_similarity_of(title, track_list, rest \ {first})

sorted_by_title_similarity(music_file, track_list) ==
    sorted_by_title_similarity_of(track_title(music_file), track_list, DOMAIN track_list)

\* sorted_by_title_similarity.iter().find(..): index of the first accepted track
\* in sorted order, 0 when there is none.
find_track(music_file, track_list, simplified_match) ==
    LET sorted == sorted_by_title_similarity(music_file, track_list)
        hits == {k \in DOMAIN sorted :
                    track_accepted(music_file, track_list[sorted[k]], simplified_match)}
    IN IF hits = {} THEN 0
       ELSE sorted[CHOOSE k \in hits : \A l \in hits : k <= l]

\* Option<Vec<DiscogsTrackMatch>>: None and Some(tracks_matching)
NoMatch == [some |-> FALSE, tracks_matching |-> <<>>]
SomeMatch(tracks_matching) == [some |-> TRUE, tracks_matching |-> tracks_matching]

\* a matcher that skips a file without a track instead of giving up
match_release_skipping_unpaired(release, music_files, simplified_match) ==
    LET track_list == release.tracks
        found == [i \in DOMAIN music_files |->
                     find_track(music_files[i], track_list, simplified_match)]
        paired == SelectSeq([i \in DOMAIN music_files |-> i], LAMBDA i : found[i] # 0)
    IN IF track_list = <<>> \/ Len(track_list) # Len(music_files)
       THEN NoMatch
       ELSE SomeMatch([k \in DOMAIN paired |->
                [music_file |-> music_files[paired[k]],
                 track |-> track_list[found[paired[k]]]]])

\* a matcher without the test of the track count
match_release_without_count_check(release, music_files, simplified_match) ==
    LET track_list == release.tracks
        found == [i \in DOMAIN music_files |->
                     find_track(music_files[i], track_list, simplified_match)]
    IN IF \E i \in DOMAIN music_files : found[i] = 0
       THEN NoMatch
       ELSE SomeMatch([i \in DOMAIN music_files |->
                [music_file |-> music_files[i], track |-> track_list[found[i]]]])

\* the number of files the loop of match_release_with_music_files looks a track
\* up for: none when the track count is rejected, otherwise up to and including
\* the first file without a track
files_compared(release, music_files, simplified_match) ==
    LET track_list == release.tracks
        unpaired == {i \in DOMAIN music_files :
                        find_track(music_files[i], track_list, simplified_match) = 0}
    IN IF track_list = <<>> \/ Len(track_list) # Len(music_files) THEN 0
       ELSE IF unpaired = {} THEN Len(music_files)
       ELSE CHOOSE i \in unpaired : \A j \in unpaired : i <= j

match_release_with_music_files(release, music_files, simplified_match) ==
    LET track_list == release.tracks
        found == [i \in DOMAIN music_files |->
                     find_track(music_files[i], track_list, simplified_match)]
    IN IF track_list = <<>> \/ Len(track_list) # Len(music_files)
       THEN NoMatch
       ELSE IF \E i \in DOMAIN music_files : found[i] = 0
       THEN NoMatch
       ELSE SomeMatch([i \in DOMAIN music_files |->
                [music_file |-> music_files[i], track |-> track_list[found[i]]]])


\* Tags and durations of the files of a group: [title, track, disc, duration].
FileKinds ==
    { [title |-> <<1>>,    track |-> None, disc |-> None, duration |-> 10],
      [title |-> <<1>>,    track |-> None, disc |-> None, duration |-> None],
      [title |-> <<1>>,    track |-> 2,    disc |-> None, duration |-> None],
      [title |-> <<1>>,    track |-> 1,    disc |-> None, duration |-> 10],
      [title |-> <<1, 2>>, track |-> 1,    disc |-> None, duration |-> 10],
      [title |-> <<1, 2>>, track |-> 2,    disc |-> None, duration |-> None],
      [title |-> NoTitle,  track |-> None, disc |-> None, duration |-> 10],
      [title |-> <<1>>,    track |-> 1,    disc |-> 2,    duration |-> None] }

\* Titles and durations of catalog tracks.
TrackKinds == [title : {<<1>>, <<2>>}, duration : {20, 40}]

FileNames == <<"f1", "f2", "f3", "f4">>
FilePath(dir, i) == <<dir, FileNames[i]>>

\* MusicFile number i of directory dir with the tag of kind k; its file stem is "2".
MusicFile(dir, i, k) ==
    [path |-> FilePath(dir, i), stem |-> <<2>>, title |-> k.title,
     track |-> k.track, disc |-> k.disc, duration |-> k.duration]

\* The groups of n files of directory dir.
Groups(dir, n) ==
    {[i \in 1..n |-> MusicFile(dir, i, ks[i])] : ks \in [1..n -> FileKinds]}

\* refined::DiscogsRelease with n tracks of one disc, positions by list index.
Releases(id, n) ==
    {[id |-> id,
      tracks |-> [i \in 1..n |-> [title |-> ks[i].title, position |-> i, disc |-> 1,
                                  duration |-> ks[i].duration]]] :
        ks \in [1..n -> TrackKinds]}

NoRelease == [id |-> 0, tracks |-> <<>>]

InitRelease ==
    /\ r_release \in UNION {Releases(1, n) : n \in 0..MaxFiles}
    /\ r_files \in UNION {Groups("d", n) : n \in 1..MaxFiles}
    /\ r_simplified \in BOOLEAN
    /\ r_called = FALSE
    /\ r_result = NoMatch

IdleRelease ==
    /\ r_release = NoRelease
    /\ r_files = <<>>
    /\ r_simplified = FALSE
    /\ r_called = FALSE
    /\ r_result = NoMatch

MatchRelease ==
    /\ UNCHANGED outsideRelease
    /\ ~r_called
    /\ r_files # <<>>
    /\ r_called' = TRUE
    /\ r_result' = match_release_with_music_files(r_release, r_files, r_simplified)
    /\ UNCHANGED <<r_release, r_files, r_simplified>>

r_matched == r_called /\ r_result.some

\* C3: whenever match_release_with_music_files yields Some(tracks_matching), the
\* number of DiscogsTrackMatch entries equals the number of files of the group
\* and every file of the group appears in exactly one entry.
C3_TotalPairing ==
    r_matched =>
        /\ Len(r_result.tracks_matching) = Len(r_files)
        /\ \A i \in DOMAIN r_files :
              Cardinality({k \in DOMAIN r_result.tracks_matching :
                  r_result.tracks_matching[k].music_file.path = r_files[i].path}) = 1

\* C3 witness: a group of two files has been matched.
C3_Witness == r_matched /\ Len(r_files) = 2

\* C4: in any Matched result no two DiscogsTrackMatch entries refer to the same
\* track (same disc and position) of the release.
C4_DistinctTracks ==
    r_matched =>
        \A i, j \in DOMAIN r_result.tracks_matching :
            i # j => <<r_result.tracks_matching[i].track.disc,
                       r_result.tracks_matching[i].track.position>>
                     # <<r_result.tracks_matching[j].track.disc,
                         r_result.tracks_matching[j].track.position>>

\* The acceptance rule as C5 states it, and as amended.
C5_RuleAsClaimed(music_file, track) ==
    /\ title_matched(music_file, track) \/ duration_matched(music_file, track)
    /\ music_file.track = None \/ music_file.track = track.position

C5_RuleAsAmended(music_file, track) ==
    /\ title_matched(music_file, track)
    /\ \/ duration_matched(music_file, track)
       \/ /\ music_file.track # None
          /\ music_file.track = track.position
          /\ (IF music_file.disc = None THEN 1 ELSE music_file.disc) = track.disc

r_automatic_compared ==
    /\ r_called
    /\ ~r_simplified
    /\ Len(r_release.tracks) = Len(r_files)

\* C5 (original): in automatic matching a candidate track is accepted for a file
\* exactly when (title similarity passes OR duration similarity passes) AND (the
\* file has no track-number tag OR its track number equals the track's position):
\* the group is matched exactly when every file has such a track, and every
\* paired track is such a track.
C5_AcceptTitleOrDuration ==
    r_automatic_compared =>
        /\ r_result.some <=>
              \A i \in DOMAIN r_files : \E k \in DOMAIN r_release.tracks :
                  C5_RuleAsClaimed(r_files[i], r_release.tracks[k])
        /\ r_result.some =>
              \A i \in DOMAIN r_result.tracks_matching :
                  C5_RuleAsClaimed(r_result.tracks_matching[i].music_file,
                                   r_result.tracks_matching[i].track)

\* C5 (amended): in automatic matching a candidate track is accepted for a file
\* exactly when title similarity passes AND (duration similarity passes OR the
\* file's track number equals the track's position on the file's disc, disc 1
\* when untagged); a file without a track-number tag needs title and duration.
C5_AcceptTitleAndDurationOrPosition ==
    r_automatic_compared =>
        /\ r_result.some <=>
              \A i \in DOMAIN r_files : \E k \in DOMAIN r_release.tracks :
                  C5_RuleAsAmended(r_files[i], r_release.tracks[k])
        /\ r_result.some =>
              \A i \in DOMAIN r_result.tracks_matching :
                  C5_RuleAsAmended(r_result.tracks_matching[i].music_file,
                                   r_result.tracks_matching[i].track)

\* C5 witness: a group was rejected although each of its files, one of them
\* without a track number, has a track that passes on title or duration alone.
C5_Witness ==
    /\ r_automatic_compared
    /\ ~r_result.some
    /\ \E i \in DOMAIN r_files : r_files[i].track = None
    /\ \A i \in DOMAIN r_files : \E k \in DOMAIN r_release.tracks :
           C5_RuleAsClaimed(r_files[i], r_release.tracks[k])

\* C19: in the simplified match a file with a track-number tag is paired with
\* the track at that position, and files without a track-number tag are paired
\* with the tracks by list order, so that a group of untagged files with as
\* many files as the release has tracks is matched.
C19_SimplifiedPairsUntaggedByOrder ==
    (r_called /\ r_simplified /\ Len(r_release.tracks) = Len(r_files)) =>
        /\ r_result.some =>
              \A i \in DOMAIN r_files :
                  r_files[i].track # None =>
                      r_result.tracks_matching[i].track.position = r_files[i].track
        /\ (\A i \in DOMAIN r_files : r_files[i].track = None) =>
              /\ r_result.some
              /\ \A i \in DOMAIN r_files :
                    r_result.tracks_matching[i].track = r_release.tracks[i]

\* C20: a release with an empty track list, or with a track count other than
\* the group's file count, is rejected without a track being looked up for any
\* file, in the automatic and in the simplified match; no match pairs a group
\* with a release of another track count.
C20_CardinalityPrecheck ==
    r_called =>
        /\ (r_release.tracks = <<>> \/ Len(r_release.tracks) # Len(r_files)) =>
              /\ r_result = NoMatch
              /\ files_compared(r_release, r_files, r_simplified) = 0
        /\ r_result.some => Len(r_release.tracks) = Len(r_files)

\* C20 witness: a release with more tracks than the group has files was
\* rejected in the simplified match although every file has its track.
C20_Witness ==
    /\ r_called
    /\ r_simplified
    /\ Len(r_release.tracks) > Len(r_files)
    /\ \A i \in DOMAIN r_files : find_track(r_files[i], r_release.tracks, TRUE) # 0
    /\ r_result = NoMatch

(***************************************************************************)
(* Group matching: DiscogsMatcher::match_music_files                       *)
(***************************************************************************)

\* Bound on the number of "Enter Discogs ID / Take as is" prompts answered for
\* one group.
MaxPrompts == 2

\* a take that lets one more item through
TakeOneMore == 5 + 1

\* .take(5): release candidates taken per parameter set
TakeLimit == 5


\* Option<String>::None for a release id; ids are positive numbers, and
\* InvalidId stands for a string extract_discogs_id rejects.
NoId == 0
InvalidId == -2

\* The catalog: /releases/{id} for id 1..9; any other id is answered 404.  The
\* releases 4..9 have four tracks each.
CatalogTracks(id) ==
    CASE id = 1 -> << [title |-> <<1>>, position |-> 1, disc |-> 1, duration |-> 20],
                      [title |-> <<2>>, position |-> 2, disc |-> 1, duration |-> 20] >>
      [] id = 2 -> << [title |-> <<1>>, position |-> 1, disc |-> 1, duration |-> 20] >>
      [] id = 3 -> << [title |-> <<2>>, position |-> 1, disc |-> 1, duration |-> 40],
                      [title |-> <<2>>, position |-> 2, disc |-> 1, duration |-> 40] >>
      [] id \in 4..9 -> [i \in 1..4 |-> [title |-> <<id>>, position |-> i, disc |-> 1,
                                          duration |-> 20]]
      [] OTHER -> <<>>
CatalogIds == 1..9
CatalogRelease(id) == [id |-> id, tracks |-> CatalogTracks(id)]

\* serialized::DiscogsMaster.main_release_url of master m: release m.
main_release_url(master) == master

\* common_search_params_from_music_files: the parameter sets, in order.
common_search_params ==
    << <<"release_title", "year">>,
       <<"release_title">>,
       <<"artist", "release_title", "year">>,
       <<"artist", "release_title">>,
       <<"artist">> >>

\* Search results of the catalog per parameter set: master ids and release ids.
NoResults == [master |-> <<>>, release |-> <<>>]
SearchIndexes ==
    { [i \in 1..5 |-> NoResults],
      [i \in 1..5 |-> IF i = 1 THEN [master |-> <<1>>, release |-> <<1, 2>>]
                      ELSE NoResults],
      [i \in 1..5 |-> IF i = 5 THEN [master |-> <<>>, release |-> <<3, 1>>]
                      ELSE NoResults],
      [i \in 1..5 |-> IF i = 1 THEN [master |-> <<3>>, release |-> <<2, 2, 2, 2, 2, 2>>]
                      ELSE IF i = 2 THEN [master |-> <<3, 3, 3, 3, 3, 2>>, release |-> <<1>>]
                      ELSE NoResults],
      [i \in 1..5 |-> IF i = 1 THEN [master |-> <<>>, release |-> <<4, 5, 6, 7, 8, 9, 1>>]
                      ELSE IF i = 3 THEN [master |-> <<4, 9>>, release |-> <<5, 9, 2, 3, 1>>]
                      ELSE NoResults] }

\* The inputs: the files of directory "a", optionally followed by one of "b".
KindOf(t, n, d) == [title |-> t, track |-> n, disc |-> None, duration |-> d]
InputsA ==
    { << MusicFile("a", 1, KindOf(<<1>>, 1, 10)),
         MusicFile("a", 2, KindOf(<<1, 2>>, 2, None)) >>,
      << MusicFile("a", 1, KindOf(<<1>>, None, None)),
         MusicFile("a", 2, KindOf(<<1>>, None, None)) >>,
      << MusicFile("a", 1, KindOf(<<1>>, 1, 10)) >> }
InputsB ==
    { <<>>, << MusicFile("b", 1, KindOf(<<1>>, None, 10)) >> }
MatcherInputs == {a \o b : a \in InputsA, b \in InputsB}

\* PathExtensions::parent_or_empty
parent_or_empty(path) == IF Len(path) = 0 THEN <<>> ELSE SubSeq(path, 1, Len(path) - 1)

\* files_grouped_by_parent_path: the keys and the Vec of one key (input order)
group_keys(music_files) ==
    {parent_or_empty(music_files[i].path) : i \in DOMAIN music_files}
\* a grouping that puts every file into every group
group_of_all(music_files, parent_path) == music_files
group_of(music_files, parent_path) ==
    SelectSeq(music_files, LAMBDA f : parent_or_empty(f.path) = parent_path)

\* DiscogsReleaseMatchResult
Unmatched(music_files) ==
    [matched |-> FALSE, music_files |-> music_files, tracks_matching |-> <<>>,
     release |-> NoRelease]
Matched(tracks_matching, release) ==
    [matched |-> TRUE, music_files |-> <<>>, tracks_matching |-> tracks_matching,
     release |-> release]

\* extract_discogs_id: Ok(id) for "[r123]" and "123", Err otherwise
extract_discogs_id_ok(string) == string # InvalidId

Event(ev, n, ok, simplified) == [ev |-> ev, n |-> n, ok |-> ok, s |-> simplified]

InitMatcher ==
    /\ mm_input \in MatcherInputs
    /\ mm_force \in {NoId, 1, 3, InvalidId}
    /\ mm_index \in SearchIndexes
    /\ mm_force # NoId => mm_index = [i \in 1..5 |-> NoResults]
    /\ mm_pc = "next_group"
    /\ mm_todo = group_keys(mm_input)
    /\ mm_path = <<>>
    /\ mm_files = <<>>
    /\ mm_match = Unmatched(<<>>)
    /\ mm_param = 1
    /\ mm_phase = "master_search"
    /\ mm_items = <<>>
    /\ mm_taken = 0
    /\ mm_checked = {}
    /\ mm_release_id = NoId
    /\ mm_prompts = 0
    /\ mm_result = <<>>
    /\ mm_trace = <<>>

IdleMatcher ==
    /\ mm_input = <<>>
    /\ mm_force = NoId
    /\ mm_index = [i \in 1..5 |-> NoResults]
    /\ mm_pc = "idle"
    /\ mm_todo = {}
    /\ mm_path = <<>>
    /\ mm_files = <<>>
    /\ mm_match = Unmatched(<<>>)
    /\ mm_param = 1
    /\ mm_phase = "master_search"
    /\ mm_items = <<>>
    /\ mm_taken = 0
    /\ mm_checked = {}
    /\ mm_release_id = NoId
    /\ mm_prompts = 0
    /\ mm_result = <<>>
    /\ mm_trace = <<>>

\* "Take as is" of ask_for_release_id (Ok(None)); any other answer is what the
\* user types after "Enter Discogs ID".
TakeAsIs == 0
Answers == {TakeAsIs} \cup {1, 2, 3} \cup {InvalidId}


\* a matcher that searches the catalog whether or not a release id is forced
first_stage_always_automatic(force_discogs_release_id) == "auto"

\* if force_discogs_release_id.is_none() { .. the automatic stage .. }
first_stage(force_discogs_release_id) ==
    IF force_discogs_release_id = NoId THEN "auto" ELSE "stage_d"

\* for (path, music_files) in files_grouped_by_parent_path { .. }
\* (a HashMap: the groups come in any order)
MatchNextGroup ==
    /\ UNCHANGED outsideMatcher
    /\ mm_pc = "next_group"
    /\ \E path \in mm_todo :
          /\ mm_todo' = mm_todo \ {path}
          /\ mm_path' = path
          /\ mm_files' = group_of(mm_input, path)
          /\ mm_match' = Unmatched(group_of(mm_input, path))
    /\ mm_trace' = <<>>
    /\ mm_pc' = first_stage(mm_force)
    /\ mm_param' = 1
    /\ mm_phase' = "master_search"
    /\ mm_items' = <<>>
    /\ mm_taken' = 0
    /\ mm_checked' = {}
    /\ mm_prompts' = 0
    /\ mm_release_id' = NoId
    /\ UNCHANGED <<envVars, mm_result>>

\* Ok(result)
MatchReturn ==
    /\ UNCHANGED outsideMatcher
    /\ mm_pc = "next_group"
    /\ mm_todo = {}
    /\ mm_pc' = "done"
    /\ UNCHANGED <<envVars, mm_todo, mm_path, mm_files, mm_match, autoVars,
                   mm_release_id, mm_prompts, mm_result, mm_trace>>

\* Bound on the master searches that fail for one group.
MaxSearchFailures == 1

failed_searches(trace) ==
    Cardinality({i \in DOMAIN trace : trace[i].ev = "search_master" /\ ~trace[i].ok})

\* search_master_release: the search request of once_with.  An Err of the search
\* is an outer Err of the Result<Result<String>> items, which .flatten() drops.
AutoSearchMaster ==
    /\ UNCHANGED outsideMatcher
    /\ mm_pc = "auto"
    /\ mm_phase = "master_search"
    /\ mm_taken < TakeLimit
    /\ \E ok \in BOOLEAN :
          /\ ~ok => failed_searches(mm_trace) < MaxSearchFailures
          /\ mm_trace' = Append(mm_trace, Event("search_master", mm_param, ok, FALSE))
          /\ mm_items' = IF ok THEN mm_index[mm_param].master ELSE <<>>
    /\ mm_phase' = "masters"
    /\ UNCHANGED <<envVars, mm_pc, mm_todo, mm_path, mm_files, mm_match, mm_param,
                   mm_taken, mm_checked, mm_release_id, mm_prompts, mm_result>>

\* a checked_release_urls test that never finds the URL
never_checked(release_url, checked_release_urls) == FALSE

\* checked_release_urls.contains(&release_url)
already_checked(release_url, checked_release_urls) == release_url \in checked_release_urls

\* a loop that goes on to the next release URL after a match
after_automatic_match_going_on(tracks_matching) == "auto"

\* match .. { None => continue, Some(tracks_matching) => { match_result = ..; break } }
after_automatic_match(tracks_matching) ==
    IF tracks_matching.some THEN "push" ELSE "auto"

\* The body of `for release_url in release_urls` for one Ok(release_url): the
\* checked_release_urls test, fetch_by_url, refined::DiscogsRelease::from and
\* match_release_with_music_files(.., false).  `trace` is the trace so far.
AutoCheckUrl(release_url, trace) ==
    IF already_checked(release_url, mm_checked)
    THEN /\ mm_trace' = trace
         /\ UNCHANGED <<mm_checked, mm_match, mm_pc>>
    ELSE /\ mm_checked' = mm_checked \cup {release_url}
         /\ \/ \* fetch_by_url(release_url)? fails
               /\ mm_trace' = Append(trace, Event("release", release_url, FALSE, FALSE))
               /\ mm_pc' = "error"
               /\ UNCHANGED mm_match
            \/ /\ release_url \in CatalogIds
               /\ LET release == CatalogRelease(release_url)
                      tracks_matching ==
                          match_release_with_music_files(release, mm_files, FALSE)
                  IN /\ mm_trace' = trace
                            \o << Event("release", release_url, TRUE, FALSE),
                                  Event("match", release_url, tracks_matching.some, FALSE) >>
                     /\ mm_match' = IF tracks_matching.some
                                    THEN Matched(tracks_matching.tracks_matching, release)
                                    ELSE mm_match
                     /\ mm_pc' = after_automatic_match(tracks_matching)

\* search_master_release: fetch_by_url(v.resource_url) of the next master
AutoFetchMaster ==
    /\ UNCHANGED outsideMatcher
    /\ mm_pc = "auto"
    /\ mm_phase = "masters"
    /\ mm_items # <<>>
    /\ mm_taken < TakeLimit
    /\ mm_taken' = mm_taken + 1
    /\ mm_items' = Tail(mm_items)
    /\ \/ \* the master request fails: an Err item, returned by `release_url?`
          /\ mm_trace' = Append(mm_trace, Event("master", Head(mm_items), FALSE, FALSE))
          /\ mm_pc' = "error"
          /\ UNCHANGED <<mm_checked, mm_match>>
       \/ AutoCheckUrl(main_release_url(Head(mm_items)),
                       Append(mm_trace, Event("master", Head(mm_items), TRUE, FALSE)))
    /\ UNCHANGED <<envVars, mm_todo, mm_path, mm_files, mm_param, mm_phase,
                   mm_release_id, mm_prompts, mm_result>>

\* search_release: the search request of once_with, made when the masters are
\* exhausted.  An Err of the search is an item of the chain.
AutoSearchRelease ==
    /\ UNCHANGED outsideMatcher
    /\ mm_pc = "auto"
    /\ mm_phase = "masters"
    /\ mm_items = <<>>
    /\ mm_taken < TakeLimit
    /\ mm_phase' = "releases"
    /\ \/ /\ mm_trace' = Append(mm_trace, Event("search_release", mm_param, TRUE, FALSE))
          /\ mm_items' = mm_index[mm_param].release
          /\ UNCHANGED <<mm_taken, mm_pc>>
       \/ /\ mm_trace' = Append(mm_trace, Event("search_release", mm_param, FALSE, FALSE))
          /\ mm_taken' = mm_taken + 1
          /\ mm_pc' = "error"
          /\ UNCHANGED mm_items
    /\ UNCHANGED <<envVars, mm_todo, mm_path, mm_files, mm_match, mm_param,
                   mm_checked, mm_release_id, mm_prompts, mm_result>>

\* the next resource_url of the release search
AutoTakeRelease ==
    /\ UNCHANGED outsideMatcher
    /\ mm_pc = "auto"
    /\ mm_phase = "releases"
    /\ mm_items # <<>>
    /\ mm_taken < TakeLimit
    /\ mm_taken' = mm_taken + 1
    /\ mm_items' = Tail(mm_items)
    /\ AutoCheckUrl(Head(mm_items), mm_trace)
    /\ UNCHANGED <<envVars, mm_todo, mm_path, mm_files, mm_param, mm_phase,
                   mm_release_id, mm_prompts, mm_result>>

\* take(5) or the chain is exhausted
params_exhausted ==
    \/ mm_taken >= TakeLimit
    \/ mm_phase = "releases" /\ mm_items = <<>>

\* a flat_map that jumps to the last parameter set
next_params_skipping(param) == Len(common_search_params)

\* common_search_params.iter().flat_map(..): the next element of the Vec
next_params(param) == param + 1

\* flat_map moves on to the next parameter set
AutoNextParams ==
    /\ UNCHANGED outsideMatcher
    /\ mm_pc = "auto"
    /\ params_exhausted
    /\ mm_param < Len(common_search_params)
    /\ mm_param' = next_params(mm_param)
    /\ mm_phase' = "master_search"
    /\ mm_items' = <<>>
    /\ mm_taken' = 0
    /\ UNCHANGED <<envVars, mm_pc, mm_todo, mm_path, mm_files, mm_match, mm_checked,
                   mm_release_id, mm_prompts, mm_result, mm_trace>>

\* release_urls is exhausted: the for loop ends with match_result Unmatched
AutoExhausted ==
    /\ UNCHANGED outsideMatcher
    /\ mm_pc = "auto"
    /\ params_exhausted
    /\ mm_param = Len(common_search_params)
    /\ mm_pc' = "stage_d"
    /\ UNCHANGED <<envVars, mm_todo, mm_path, mm_files, mm_match, autoVars,
                   mm_release_id, mm_prompts, mm_result, mm_trace>>

\* if let Unmatched(_) = match_result { let mut release_id = force..; .. }
ManualEnter ==
    /\ UNCHANGED outsideMatcher
    /\ mm_pc = "stage_d"
    /\ IF mm_force # NoId
       THEN IF extract_discogs_id_ok(mm_force)
            THEN /\ mm_release_id' = mm_force
                 /\ mm_pc' = "fetch_manual"
            ELSE /\ mm_pc' = "error"
                 /\ UNCHANGED mm_release_id
       ELSE /\ mm_pc' = "ask_first"
            /\ UNCHANGED mm_release_id
    /\ UNCHANGED <<envVars, mm_todo, mm_path, mm_files, mm_match, autoVars,
                   mm_prompts, mm_result, mm_trace>>

\* ask_for_release_id: Ok(None) for "Take as is", Ok(Some(id)) for an id that
\* extract_discogs_id accepts, Err otherwise.  `taken_as_is` is the position
\* reached on Ok(None).
AskForReleaseId(taken_as_is) ==
    /\ mm_prompts < MaxPrompts
    /\ mm_prompts' = mm_prompts + 1
    /\ \E answer \in Answers :
          /\ mm_trace' = Append(mm_trace,
                                Event("ask", answer, extract_discogs_id_ok(answer), TRUE))
          /\ IF answer = TakeAsIs
             THEN /\ mm_pc' = taken_as_is
                  /\ UNCHANGED mm_release_id
             ELSE IF extract_discogs_id_ok(answer)
             THEN /\ mm_release_id' = answer
                  /\ mm_pc' = "fetch_manual"
             ELSE /\ mm_pc' = "error"
                  /\ UNCHANGED mm_release_id
    /\ UNCHANGED <<envVars, mm_todo, mm_path, mm_files, mm_match, autoVars, mm_result>>

\* release_id = Self::ask_for_release_id("Can't find release for ..")?
ManualAskFirst ==
    /\ UNCHANGED outsideMatcher
    /\ mm_pc = "ask_first"
    /\ AskForReleaseId("push")

\* where the manual loop goes without asking again
after_manual_match_giving_up(tracks_matching) == "push"

\* match .. { None => ask_for_release_id(..), Some(tracks_matching) => break }
after_manual_match(tracks_matching) ==
    IF tracks_matching.some THEN "push" ELSE "ask_again"

\* loop { fetch_release_by_id(&release_id)?; match_release_with_music_files(.., true) }
ManualFetchAndMatch ==
    /\ UNCHANGED outsideMatcher
    /\ mm_pc = "fetch_manual"
    /\ \/ \* fetch_release_by_id(..)? fails (transport, status, JSON)
          /\ mm_trace' = Append(mm_trace, Event("release", mm_release_id, FALSE, TRUE))
          /\ mm_pc' = "error"
          /\ UNCHANGED mm_match
       \/ /\ mm_release_id \in CatalogIds
          /\ LET release == CatalogRelease(mm_release_id)
                 tracks_matching == match_release_with_music_files(release, mm_files, TRUE)
             IN /\ mm_trace' = mm_trace
                       \o << Event("release", mm_release_id, TRUE, TRUE),
                             Event("match", mm_release_id, tracks_matching.some, TRUE) >>
                /\ mm_match' = IF tracks_matching.some
                               THEN Matched(tracks_matching.tracks_matching, release)
                               ELSE mm_match
                /\ mm_pc' = after_manual_match(tracks_matching)
    /\ UNCHANGED <<envVars, mm_todo, mm_path, mm_files, autoVars, mm_release_id,
                   mm_prompts, mm_result>>

\* match Self::ask_for_release_id("Failed to match with ID ..")? {
\*     None => break, Some(new_release_id) => release_id = new_release_id }
ManualAskAgain ==
    /\ UNCHANGED outsideMatcher
    /\ mm_pc = "ask_again"
    /\ AskForReleaseId("push")

\* result.push(match_result)
MatchPush ==
    /\ UNCHANGED outsideMatcher
    /\ mm_pc = "push"
    /\ mm_result' = Append(mm_result, mm_match)
    /\ mm_pc' = "next_group"
    /\ UNCHANGED <<envVars, mm_todo, mm_path, mm_files, mm_match, autoVars,
                   mm_release_id, mm_prompts, mm_trace>>


failed_simplified_match(event) == event.ev = "match" /\ event.s /\ ~event.ok

\* C9: in the manual fallback a group ends as Matched only through a successful
\* simplified match of the release the user supplied last (or of the forced
\* one), and ends as Unmatched only when the user selects "Take as is"; after
\* every failed simplified match the user is prompted again.
C9_ManualFallbackExits ==
    LET n == Len(mm_trace)
    IN /\ mm_pc = "push" =>
            \/ \* matched by the automatic stage
               /\ mm_match.matched
               /\ n >= 2
               /\ mm_trace[n] = Event("match", mm_match.release.id, TRUE, FALSE)
            \/ \* matched by the manual fallback
               /\ mm_match.matched
               /\ n >= 2
               /\ mm_trace[n] = Event("match", mm_match.release.id, TRUE, TRUE)
               /\ mm_trace[n - 1] = Event("release", mm_match.release.id, TRUE, TRUE)
               /\ IF n = 2
                  THEN mm_force = mm_match.release.id
                  ELSE mm_trace[n - 2] = Event("ask", mm_match.release.id, TRUE, TRUE)
            \/ \* taken as is
               /\ mm_match = Unmatched(mm_files)
               /\ n >= 1
               /\ mm_trace[n] = Event("ask", TakeAsIs, TRUE, TRUE)
       /\ \A i \in DOMAIN mm_trace :
             failed_simplified_match(mm_trace[i]) =>
                 IF i = n THEN mm_pc = "ask_again" ELSE mm_trace[i + 1].ev = "ask"

\* C9 witness: a group is Matched by a release id the user gave after an earlier
\* id failed the simplified match.
C9_Witness ==
    /\ mm_pc = "push"
    /\ mm_match.matched
    /\ \E i \in DOMAIN mm_trace : failed_simplified_match(mm_trace[i])

\* the requests to the catalog recorded in the trace
catalog_request(event) == event.ev \in {"search_master", "search_release", "master", "release"}

\* C18: if a catalog request issued while matching a group ends in an error,
\* match_music_files returns the error: after a failed request the matcher is
\* in its error exit, it matches nothing more and pushes no result.
C18_RequestErrorAborts ==
    \A i \in DOMAIN mm_trace :
        (catalog_request(mm_trace[i]) /\ ~mm_trace[i].ok) => mm_pc = "error"

\* the release fetches of the automatic stage recorded in a trace, and the
\* parameter set on whose behalf the j-th event happened
automatic_fetches(trace) ==
    {j \in DOMAIN trace : trace[j].ev = "release" /\ ~trace[j].s}
param_of(trace, j) ==
    LET searches == {i \in 1..j : trace[i].ev = "search_master"}
    IN IF searches = {} THEN 0
       ELSE trace[CHOOSE i \in searches : \A k \in searches : k <= i].n

\* C28: in the automatic stage the first release that achieves a total match
\* becomes the result of the group and matching stops: a successful automatic
\* match is the last event of the group, and its release is the result.
C28_FirstMatchWins ==
    \A i \in DOMAIN mm_trace :
        (mm_trace[i].ev = "match" /\ ~mm_trace[i].s /\ mm_trace[i].ok) =>
            /\ i = Len(mm_trace)
            /\ mm_match.matched
            /\ mm_match.release = CatalogRelease(mm_trace[i].n)
            /\ mm_pc \in {"push", "next_group", "done"}

\* C28 witness: a group is matched by a candidate after an earlier candidate
\* failed, while further candidates were still waiting.
C28_Witness ==
    /\ mm_pc = "push"
    /\ mm_match.matched
    /\ mm_items # <<>>
    /\ \E i \in DOMAIN mm_trace :
          mm_trace[i].ev = "match" /\ ~mm_trace[i].s /\ ~mm_trace[i].ok

\* C29: at most 5 release fetches are made on behalf of one parameter set, and
\* at most 25 in the automatic stage of one group.
C29_FetchCap ==
    /\ \A param \in DOMAIN common_search_params :
          Cardinality({j \in automatic_fetches(mm_trace) :
                          param_of(mm_trace, j) = param}) <= 5
    /\ Cardinality(automatic_fetches(mm_trace)) <= 25

\* C29 witness: five releases were fetched for one parameter set and the search
\* had returned more.
C29_Witness ==
    /\ mm_pc = "auto"
    /\ mm_items # <<>>
    /\ Cardinality({j \in automatic_fetches(mm_trace) :
                       param_of(mm_trace, j) = mm_param}) = 5

\* C30: within the automatic stage of one group no release URL is fetched
\* twice.
C30_FetchedOnce ==
    \A i, j \in automatic_fetches(mm_trace) :
        mm_trace[i].n = mm_trace[j].n => i = j

\* C30 witness: the searches returned a release URL that was already checked,
\* for a later parameter set, and the stage went on without fetching it.
C30_Witness ==
    /\ mm_pc = "auto"
    /\ mm_param > 1
    /\ mm_taken > Cardinality({j \in automatic_fetches(mm_trace) :
                                  param_of(mm_trace, j) = mm_param})
    /\ \E j \in DOMAIN mm_trace :
          /\ mm_trace[j].ev = "master" /\ mm_trace[j].ok
          /\ param_of(mm_trace, j) = mm_param
          /\ \E i \in automatic_fetches(mm_trace) :
                /\ mm_trace[i].n = main_release_url(mm_trace[j].n)
                /\ param_of(mm_trace, i) < mm_param

\* C34: with a forced release id the trace of a group holds no search and no
\* master request; its requests are release fetches of the manual loop, the
\* first of them for the forced id; and the user is asked only after the forced
\* release has failed the simplified match.
C34_ForcedIdSkipsSearch ==
    mm_force # NoId =>
        /\ \A i \in DOMAIN mm_trace :
              /\ mm_trace[i].ev \notin {"search_master", "search_release", "master"}
              /\ mm_trace[i].ev = "release" =>
                    /\ mm_trace[i].s
                    /\ (\A j \in 1..(i - 1) : mm_trace[j].ev # "release")
                          => mm_trace[i].n = mm_force
              /\ mm_trace[i].ev = "ask" =>
                    \E j \in 1..(i - 1) : mm_trace[j] = Event("match", mm_force, FALSE, TRUE)
        /\ mm_checked = {}

\* C34 witness: the forced release failed the simplified match, the user gave
\* another id and the group was matched with that release.
C34_Witness ==
    /\ mm_force \in CatalogIds
    /\ mm_pc = "push"
    /\ mm_match.matched
    /\ mm_match.release.id # mm_force
    /\ \E i \in DOMAIN mm_trace : mm_trace[i].ev = "ask"

\* the positions of the master searches of a trace up to position i
master_searches(trace, i) == {j \in 1..i : trace[j].ev = "search_master"}

\* C35: the automatic stage of a group searches with the parameter sets
\* {album, year}, {album}, {artist, album, year}, {artist, album}, {artist} in
\* this order, none skipped; the release search of a set comes after the master
\* search of that set and before the master search of the next; and when a
\* search of a later set is issued, every candidate fetched before it was
\* fetched successfully and rejected by the match.
C35_ParameterSetsInOrder ==
    \A i \in DOMAIN mm_trace :
        /\ mm_trace[i].ev = "search_master" =>
              /\ mm_trace[i].n = Cardinality(master_searches(mm_trace, i))
              /\ common_search_params[mm_trace[i].n]
                    = << <<"release_title", "year">>,
                         <<"release_title">>,
                         <<"artist", "release_title", "year">>,
                         <<"artist", "release_title">>,
                         <<"artist">> >>[Cardinality(master_searches(mm_trace, i))]
        /\ mm_trace[i].ev = "search_release" =>
              /\ mm_trace[i].n = param_of(mm_trace, i)
              /\ \A j \in 1..(i - 1) :
                    mm_trace[j].ev = "search_release" => mm_trace[j].n < mm_trace[i].n
        /\ mm_trace[i].ev \in {"search_master", "search_release"} =>
              \A j \in 1..(i - 1) :
                  /\ mm_trace[j].ev \in {"master", "release"} => mm_trace[j].ok
                  /\ mm_trace[j].ev = "release" =>
                        mm_trace[j + 1] = Event("match", mm_trace[j].n, FALSE, FALSE)

\* C35 witness: the searches of the third parameter set were issued after
\* candidates of the first set had been fetched and rejected, and one of its
\* candidates was fetched.
C35_Witness ==
    \E i, j, k \in DOMAIN mm_trace :
        /\ i < j /\ j < k
        /\ mm_trace[i].ev = "match" /\ ~mm_trace[i].ok /\ param_of(mm_trace, i) = 1
        /\ mm_trace[j].ev = "search_release" /\ mm_trace[j].n = 3
        /\ mm_trace[k].ev = "release" /\ param_of(mm_trace, k) = 3

\* the files of a match result: those of its track matches, or its members
files_of(match_result) ==
    IF match_result.matched
    THEN [i \in DOMAIN match_result.tracks_matching |->
             match_result.tracks_matching[i].music_file]
    ELSE match_result.music_files

\* C33: the returned results partition the input: one result per distinct
\* parent directory of the input files, every input file in exactly one result
\* (once), and no result with files of two directories.
C33_ResultsPartitionInput ==
    mm_pc = "done" =>
        /\ Len(mm_result) = Cardinality(group_keys(mm_input))
        /\ \A i \in DOMAIN mm_input :
              Cardinality({<<k, j>> \in (DOMAIN mm_result) \X (1..Len(mm_input)) :
                              /\ j \in DOMAIN files_of(mm_result[k])
                              /\ files_of(mm_result[k])[j] = mm_input[i]}) = 1
        /\ \A k \in DOMAIN mm_result :
              /\ \A j \in DOMAIN files_of(mm_result[k]) :
                    \E i \in DOMAIN mm_input : mm_input[i] = files_of(mm_result[k])[j]
              /\ \A i, j \in DOMAIN files_of(mm_result[k]) :
                    parent_or_empty(files_of(mm_result[k])[i].path)
                        = parent_or_empty(files_of(mm_result[k])[j].path)

\* C33 witness: files of two directories were returned as a Matched result of
\* two files and an Unmatched result.
C33_Witness ==
    /\ mm_pc = "done"
    /\ Len(mm_result) = 2
    /\ \E k, l \in DOMAIN mm_result :
          /\ mm_result[k].matched
          /\ Len(mm_result[k].tracks_matching) = 2
          /\ ~mm_result[l].matched
          /\ mm_result[l].music_files # <<>>

(***************************************************************************)
(* Change planner: calculate_changes, get_cover_changes,                   *)
(* get_cleanup_changes (src/core/changes.rs).  A path is the sequence of   *)
(* its components.                                                         *)
(***************************************************************************)

\* Bound on the number of MusicFileChange entries of one ChangeList.
MaxChanges == 2

\* A HashSet's into_iter / a read_dir listing: the elements in an order that is
\* fixed but not specified.
RECURSIVE SetToSeq(_)
SetToSeq(S) ==
    IF S = {} THEN <<>>
    ELSE LET x == CHOOSE y \in S : TRUE IN <<x>> \o SetToSeq(S \ {x})

\* itertools unique(): the first occurrence of every element, in order
RECURSIVE unique(_)
unique(seq) ==
    IF seq = <<>> THEN <<>>
    ELSE LET init == unique(SubSeq(seq, 1, Len(seq) - 1))
         IN IF \E i \in DOMAIN init : init[i] = Last(seq)
            THEN init ELSE Append(init, Last(seq))

\* folder.read_dir().into_iter().flatten().filter_map(Result::ok): the entries
\* directly inside the folder; nothing when the folder cannot be read
read_dir(folder, fs) == SetToSeq({path \in fs : path # <<>> /\ parent_or_empty(path) = folder})

\* discogs_release.image of the release a change refers to (0: unmatched file):
\* release 1 carries an image, release 2 none.
NoImage == ""
release_image(release) == IF release = 1 THEN "http://img/1.jpg" ELSE NoImage

\* const COVER_FILE_NAME_WITHOUT_EXTENSION = "cover", with the image's extension
cover_file_name == "cover.jpg"

\* get_cover_changes pushing one CoverChange per music file into a Vec
get_cover_changes_per_file(music_files) ==
    LET with_image == SelectSeq([i \in DOMAIN music_files |-> i],
                                LAMBDA j : /\ music_files[j].release # 0
                                           /\ release_image(music_files[j].release) # NoImage)
    IN [k \in DOMAIN with_image |->
            [path |-> Append(parent_or_empty(music_files[with_image[k]].target),
                             cover_file_name),
             uri |-> release_image(music_files[with_image[k]].release)]]

\* get_cover_changes: a HashSet of CoverChange collected into a Vec
get_cover_changes(music_files) ==
    SetToSeq({[path |-> Append(parent_or_empty(music_files[i].target), cover_file_name),
               uri |-> release_image(music_files[i].release)] :
                 i \in {j \in DOMAIN music_files :
                           /\ music_files[j].release # 0
                           /\ release_image(music_files[j].release) # NoImage}})

\* struct Cleanup
Cleanup(path) == [path |-> path]

\* the stale entries of the folders, folder by folder
RECURSIVE stale_entries(_, _, _)
stale_entries(folders, target_paths, fs) ==
    IF folders = <<>> THEN <<>>
    ELSE LET kept == SelectSeq(read_dir(Head(folders), fs),
                               LAMBDA path : path \notin target_paths)
         IN [k \in DOMAIN kept |-> Cleanup(kept[k])]
                \o stale_entries(Tail(folders), target_paths, fs)

\* get_cleanup_changes without the final unique()
get_cleanup_changes_with_duplicates(music_files, covers, clean_source_folders, clean_target_folders, fs) ==
    LET source_folder_paths ==
            {parent_or_empty(music_files[i].source) : i \in DOMAIN music_files}
        target_folder_paths ==
            {parent_or_empty(music_files[i].target) : i \in DOMAIN music_files}
                \cup {parent_or_empty(covers[i].path) : i \in DOMAIN covers}
        target_paths ==
            {music_files[i].target : i \in DOMAIN music_files}
                \cup {covers[i].path : i \in DOMAIN covers}
    IN IF ~(clean_source_folders \/ clean_target_folders) THEN <<>>
       ELSE (IF clean_target_folders
             THEN stale_entries(SetToSeq(target_folder_paths), target_paths, fs)
             ELSE <<>>)
            \o (IF clean_source_folders
                THEN stale_entries(SetToSeq(source_folder_paths), target_paths, fs)
                ELSE <<>>)

get_cleanup_changes(music_files, covers, clean_source_folders, clean_target_folders, fs) ==
    LET source_folder_paths ==
            {parent_or_empty(music_files[i].source) : i \in DOMAIN music_files}
        target_folder_paths ==
            {parent_or_empty(music_files[i].target) : i \in DOMAIN music_files}
                \cup {parent_or_empty(covers[i].path) : i \in DOMAIN covers}
        target_paths ==
            {music_files[i].target : i \in DOMAIN music_files}
                \cup {covers[i].path : i \in DOMAIN covers}
    IN IF ~(clean_source_folders \/ clean_target_folders) THEN <<>>
       ELSE unique(
            (IF clean_target_folders
             THEN stale_entries(SetToSeq(target_folder_paths), target_paths, fs)
             ELSE <<>>)
            \o (IF clean_source_folders
                THEN stale_entries(SetToSeq(source_folder_paths), target_paths, fs)
                ELSE <<>>))

\* ChangeList
ChangeList(music_files, covers, cleanups) ==
    [music_files |-> music_files, covers |-> covers, cleanups |-> cleanups]
NoChanges == ChangeList(<<>>, <<>>, <<>>)

\* calculate_changes deriving the covers and the cleanups from the lists that
\* are left after the disabled categories are dropped
calculate_changes_filter_first(file_changes, allowed_change_types, fs) ==
    LET music_files == IF "MusicFiles" \in allowed_change_types THEN file_changes ELSE <<>>
        covers == IF "Covers" \in allowed_change_types
                  THEN get_cover_changes(music_files) ELSE <<>>
    IN ChangeList(music_files, covers,
                  get_cleanup_changes(music_files, covers,
                                      "SourceCleanup" \in allowed_change_types,
                                      "TargetCleanup" \in allowed_change_types, fs))

\* calculate_changes, given the file_changes get_file_changes returned
calculate_changes(file_changes, allowed_change_types, fs) ==
    LET cover_changes == get_cover_changes(file_changes)
        cleanup_changes ==
            get_cleanup_changes(file_changes, cover_changes,
                                "SourceCleanup" \in allowed_change_types,
                                "TargetCleanup" \in allowed_change_types, fs)
    IN ChangeList(IF "MusicFiles" \in allowed_change_types THEN file_changes ELSE <<>>,
                  IF "Covers" \in allowed_change_types THEN cover_changes ELSE <<>>,
                  cleanup_changes)

\* The source folder and the folder of an album under the output root.
InDir == <<"in">>
OutDir == <<"out">>

\* What get_file_changes returns for n source files of InDir: per file the source
\* path, the target path (in place or under the output root, named after the
\* target tag or like the source) and the matched release (0: unmatched).
TargetPaths(dir, i) ==
    {<<dir, "t1.m4a">>, FilePath(dir, i), <<"out", "t1.m4a">>, <<"out", "t2.m4a">>}
FileChanges(dir, n) ==
    {[i \in 1..n |-> [source |-> FilePath(dir, i), target |-> c[i].target,
                      release |-> c[i].release]] :
        c \in [1..n -> [target : UNION {TargetPaths(dir, i) : i \in 1..n}, release : 0..2]]}
FileChangeListsOf(dir) ==
    {fc \in UNION {FileChanges(dir, n) : n \in 1..MaxChanges} :
        \A i \in DOMAIN fc : fc[i].target \in TargetPaths(dir, i)}
\* A chunk holds the files of every directory under an input path
\* (get_music_files_chunks): here a file of in/ and one of its subdirectory
\* in/sub/, both renamed in place or left as they are.
NestedFileChangeLists ==
    {<<[source |-> <<"in", "f1">>, target |-> <<"in", name1>>, release |-> release],
       [source |-> <<"in", "sub", "f2">>, target |-> <<"in", "sub", name2>>,
        release |-> release]>> :
        name1 \in {"f1", "t1.m4a"}, name2 \in {"f2", "t2.m4a"}, release \in 0..1}
FileChangeLists == FileChangeListsOf("in") \cup NestedFileChangeLists

\* Entries that may exist besides the source files: a stray file and a
\* subdirectory of the source folder, an earlier import's track and cover.
OtherEntries ==
    {<<"in", "junk.txt">>, <<"in", "sub">>, <<"out", "t1.m4a">>, <<"out", "cover.jpg">>}

AllowedChangeTypes ==
    { {"MusicFiles", "Covers", "SourceCleanup", "TargetCleanup"},
      {"MusicFiles", "Covers"},
      {"SourceCleanup", "TargetCleanup"},
      {"MusicFiles", "SourceCleanup"},
      {"Covers", "TargetCleanup"},
      {"SourceCleanup"} }

\* The directories on the way to an entry exist with it.
Directories(paths) == {parent_or_empty(path) : path \in paths} \ {<<>>}

InitPlanner ==
    /\ p_file_changes \in FileChangeLists
    /\ \E others \in SUBSET OtherEntries :
          LET files == others \cup {p_file_changes[i].source : i \in DOMAIN p_file_changes}
          IN p_fs = files \cup Directories(files)
    /\ p_allowed \in AllowedChangeTypes
    /\ p_planned = FALSE
    /\ p_changes = NoChanges

IdlePlanner ==
    /\ p_file_changes = <<>>
    /\ p_fs = {}
    /\ p_allowed = {}
    /\ p_planned = FALSE
    /\ p_changes = NoChanges

CalculateChanges ==
    /\ UNCHANGED outsidePlanner
    /\ ~p_planned
    /\ p_file_changes # <<>>
    /\ p_planned' = TRUE
    /\ p_changes' = calculate_changes(p_file_changes, p_allowed, p_fs)
    /\ UNCHANGED <<p_fs, p_file_changes, p_allowed>>

Count(seq, x) == Cardinality({i \in DOMAIN seq : seq[i] = x})

\* the folders get_cleanup_changes lists, and the paths it keeps
cleaned_folders ==
    (IF "SourceCleanup" \in p_allowed
     THEN {parent_or_empty(p_file_changes[i].source) : i \in DOMAIN p_file_changes}
     ELSE {})
    \cup (IF "TargetCleanup" \in p_allowed
          THEN {parent_or_empty(p_file_changes[i].target) : i \in DOMAIN p_file_changes}
          ELSE {})
planned_paths ==
    {p_file_changes[i].target : i \in DOMAIN p_file_changes}
        \cup {Append(parent_or_empty(p_file_changes[i].target), cover_file_name) :
                 i \in {j \in DOMAIN p_file_changes : p_file_changes[j].release = 1}}

\* C10: every entry found directly inside a folder being cleaned (a source or
\* target folder of a planned change, for an enabled cleanup category) is absent
\* from cleanups if it is a planned music-file target or cover path, and occurs
\* in cleanups exactly once otherwise.
C10_CleanupExclusion ==
    p_planned =>
        \A path \in p_fs :
            (path # <<>> /\ parent_or_empty(path) \in cleaned_folders) =>
                Count(p_changes.cleanups, Cleanup(path))
                    = (IF path \in planned_paths THEN 0 ELSE 1)

\* C10 witness: a folder that is both a source and a target folder is cleaned in
\* both categories; it holds a planned target, which is kept, and a stale
\* entry, which is listed.
C10_Witness ==
    /\ p_planned
    /\ {"SourceCleanup", "TargetCleanup"} \subseteq p_allowed
    /\ \E i \in DOMAIN p_file_changes :
          /\ parent_or_empty(p_file_changes[i].target) = InDir
          /\ p_file_changes[i].target \in p_fs
    /\ \E k \in DOMAIN p_changes.cleanups : parent_or_empty(p_changes.cleanups[k].path) = InDir

\* C11: get_cover_changes yields no two CoverChange entries with the same
\* (path, uri); the planned tracks that share a release with an image and a
\* target folder get exactly one CoverChange, whatever their number.
C11_CoverDeduplication ==
    (p_planned /\ "Covers" \in p_allowed) =>
        /\ \A i, j \in DOMAIN p_changes.covers :
              i # j => p_changes.covers[i] # p_changes.covers[j]
        /\ \A i \in DOMAIN p_file_changes :
              release_image(p_file_changes[i].release) # NoImage =>
                  Count(p_changes.covers,
                        [path |-> Append(parent_or_empty(p_file_changes[i].target),
                                         cover_file_name),
                         uri |-> release_image(p_file_changes[i].release)]) = 1

\* C11 witness: two planned tracks of one release with an image go to one
\* target folder, and the plan holds one cover.
C11_Witness ==
    /\ p_planned
    /\ "Covers" \in p_allowed
    /\ Len(p_file_changes) = 2
    /\ p_file_changes[1].release = 1
    /\ p_file_changes[2].release = 1
    /\ parent_or_empty(p_file_changes[1].target) = parent_or_empty(p_file_changes[2].target)
    /\ Len(p_changes.covers) = 1

\* C16: a disabled change category only empties its own list: cleanups is
\* derived from all planned music-file targets and cover paths whichever
\* categories are enabled, and music_files and covers are each the full
\* computed list or empty.
C16_CategoryFilterOnly ==
    p_planned =>
        /\ p_changes.cleanups
              = get_cleanup_changes(p_file_changes, get_cover_changes(p_file_changes),
                                    "SourceCleanup" \in p_allowed,
                                    "TargetCleanup" \in p_allowed, p_fs)
        /\ p_changes.music_files
              = (IF "MusicFiles" \in p_allowed THEN p_file_changes ELSE <<>>)
        /\ p_changes.covers
              = (IF "Covers" \in p_allowed THEN get_cover_changes(p_file_changes) ELSE <<>>)

\* C16 witness: music-file changes and covers are disabled, a planned target
\* and a planned cover exist in a folder that is cleaned, and both are kept
\* while a stale entry of the folder is listed.
C16_Witness ==
    /\ p_planned
    /\ p_allowed = {"SourceCleanup", "TargetCleanup"}
    /\ p_changes.music_files = <<>>
    /\ p_changes.covers = <<>>
    /\ p_changes.cleanups # <<>>
    /\ \E i \in DOMAIN p_file_changes :
          /\ p_file_changes[i].target \in p_fs
          /\ p_file_changes[i].release = 1
          /\ Append(parent_or_empty(p_file_changes[i].target), cover_file_name) \in p_fs

(***************************************************************************)
(* The run: work and the steps that apply a ChangeList (src/core/mod.rs).  *)
(***************************************************************************)

\* The chunks get_music_files_chunks yields: one source folder each.
ChunkDirs == <<"in", "in2">>

\* The target paths of the n files of one album: the files keep their paths,
\* or the first one is renamed in place after its target tag, or the album goes
\* under the output root.
OutNames == <<"t1.m4a", "t2.m4a">>
AlbumTargets(dir, n) ==
    {[i \in 1..n |-> FilePath(dir, i)],
     [i \in 1..n |-> IF i = 1 THEN <<dir, "t1.m4a">> ELSE FilePath(dir, i)]}
    \cup (IF n <= Len(OutNames) THEN {[i \in 1..n |-> <<"out", OutNames[i]>>]} ELSE {})

\* The first file of a folder is a flac whenever it gets a new name: its target
\* then has the m4a extension and get_file_changes sets is_transcode
\* (source_extension != target_extension).  The other files are m4a already.
is_flac(dir, i, target) == i = 1 /\ target # FilePath(dir, i)

\* What matching and get_file_changes yield for one chunk: nothing for a folder
\* without music files, otherwise the files of one album, unmatched (0) or
\* matched with a release that has an image (1).
ChunkFileChangesOf(dir, n) ==
    UNION {{[i \in 1..n |-> [source |-> FilePath(dir, i), target |-> t[i],
                             release |-> release,
                             is_transcode |-> is_flac(dir, i, t[i])]] :
                 t \in AlbumTargets(dir, n)} :
              release \in 0..1}
ChunkFileChanges(dir) ==
    {<<>>} \cup UNION {ChunkFileChangesOf(dir, n) : n \in 1..MaxChanges}

\* The disk when the run starts: the source files of every chunk and the
\* other entries.
WorkDisk ==
    LET files == OtherEntries
                    \cup {FilePath(ChunkDirs[k], i) : k \in DOMAIN ChunkDirs, i \in 1..MaxChanges}
    IN files \cup Directories(files)

Entry(op, path) == [op |-> op, path |-> path]
DiskOps == {"create_dir", "write", "cover", "remove", "remove_dir", "fsync"}

\* all directories on the way to path (fs::create_dir_all creates them)
Ancestors(path) == {SubSeq(path, 1, n) : n \in 1..(Len(path) - 1)}
IsPrefix(a, b) == Len(a) <= Len(b) /\ SubSeq(b, 1, Len(a)) = a
\* fs::remove_file / fs::remove_dir_all
Removed(fs, path) == {q \in fs : ~IsPrefix(path, q)}
IsEmptyDir(fs, dir) == ~\E q \in fs : q # <<>> /\ parent_or_empty(q) = dir

\* the condition under which work applies the ChangeList, with the mutation
\* that ignores the answer
make_changes_regardless(allow_questions, answer) == TRUE
make_changes(allow_questions, answer) == ~allow_questions \/ answer

\* the order of the steps applying a ChangeList, with a mutation that cleans up
\* before the covers are downloaded
next_stage_cleanup_first(stage, force_fsync) ==
    CASE stage = "write" -> "cleanup"
      [] stage = "cleanup" -> "cleanup_parents"
      [] stage = "cleanup_parents" -> "covers"
      [] stage = "covers" -> IF force_fsync THEN "fsync" ELSE "next_chunk"
      [] OTHER -> "next_chunk"
next_stage(stage, force_fsync) ==
    CASE stage = "write" -> "covers"
      [] stage = "covers" -> "cleanup"
      [] stage = "cleanup" -> "cleanup_parents"
      [] stage = "cleanup_parents" -> IF force_fsync THEN "fsync" ELSE "next_chunk"
      [] OTHER -> "next_chunk"

\* fsync: the folders of the targets and of the covers, each once
fsync_folders(changes) ==
    unique([i \in DOMAIN changes.music_files |->
                parent_or_empty(changes.music_files[i].target)]
           \o [i \in DOMAIN changes.covers |-> parent_or_empty(changes.covers[i].path)])

\* edit_changes: the music-file changes get the targets of the edited tags; the
\* covers and the cleanups are the old ones
edit_changes(changes, targets) ==
    [changes EXCEPT !.music_files =
        [i \in DOMAIN changes.music_files |->
            [changes.music_files[i] EXCEPT !.target = targets[i]]]]

\* the targets after the user retitled the first track
EditedTargets(changes) ==
    [i \in DOMAIN changes.music_files |->
        IF i = 1
        THEN Append(parent_or_empty(changes.music_files[i].target), "t2.m4a")
        ELSE changes.music_files[i].target]

\* args.allowed_change_types of the runs
WorkAllowedChangeTypes ==
    { {"MusicFiles", "Covers", "SourceCleanup", "TargetCleanup"},
      {"MusicFiles", "Covers"},
      {"Covers", "TargetCleanup"},
      {"SourceCleanup", "TargetCleanup"} }

InitWork ==
    /\ w_allow_questions \in BOOLEAN
    /\ w_force_fsync \in BOOLEAN
    /\ p_allowed \in WorkAllowedChangeTypes
    /\ p_fs = WorkDisk
    /\ p_file_changes = <<>>
    /\ p_planned = FALSE
    /\ p_changes = NoChanges
    /\ w_pc = "start"
    /\ w_chunk = 0
    /\ w_index = 0
    /\ w_path = <<>>
    /\ w_log = <<>>

IdleWork ==
    /\ w_allow_questions = FALSE
    /\ w_force_fsync = FALSE
    /\ w_pc = "idle"
    /\ w_chunk = 0
    /\ w_index = 0
    /\ w_path = <<>>
    /\ w_log = <<>>

\* the matcher is built and the output path checked; either may fail
WorkStart ==
    /\ UNCHANGED outsideWork
    /\ w_pc = "start"
    /\ \E ok \in BOOLEAN : w_pc' = IF ok THEN "next_chunk" ELSE "error"
    /\ UNCHANGED <<plannerVars, w_allow_questions, w_force_fsync, w_chunk, w_index,
                   w_path, w_log>>

\* for music_files in music_files_chunks: the next chunk is read and matched,
\* or the loop ends
WorkNextChunk ==
    /\ UNCHANGED outsideWork
    /\ w_pc = "next_chunk"
    /\ IF w_chunk = Len(ChunkDirs)
       THEN /\ w_pc' = "done"
            /\ UNCHANGED <<w_chunk, w_log, p_file_changes, p_planned, p_changes>>
       ELSE /\ w_chunk' = w_chunk + 1
            /\ w_log' = <<>>
            /\ p_file_changes' = <<>>
            /\ p_planned' = FALSE
            /\ p_changes' = NoChanges
            /\ \E ok \in BOOLEAN : w_pc' = IF ok THEN "calculate" ELSE "error"
    /\ UNCHANGED <<p_fs, p_allowed, w_allow_questions, w_force_fsync, w_index, w_path>>

\* calculate_changes(&discogs_releases, ..)?
WorkCalculate ==
    /\ UNCHANGED outsideWork
    /\ w_pc = "calculate"
    /\ \/ /\ w_pc' = "error"
          /\ UNCHANGED <<p_file_changes, p_planned, p_changes, w_log>>
       \/ \E fc \in ChunkFileChanges(ChunkDirs[w_chunk]) :
             /\ \A i \in DOMAIN fc : fc[i].source \in p_fs
             /\ p_file_changes' = fc
             /\ p_planned' = TRUE
             /\ p_changes' = calculate_changes(fc, p_allowed, p_fs)
             /\ w_log' = Append(w_log, Entry("calculate", <<>>))
             /\ w_pc' = "skip_check"
    /\ UNCHANGED <<p_fs, p_allowed, w_allow_questions, w_force_fsync, w_chunk, w_index,
                   w_path>>

\* if changes.music_files.is_empty() && changes.covers.is_empty()
\*     && changes.covers.is_empty() { continue; }
WorkSkipCheck ==
    /\ UNCHANGED outsideWork
    /\ w_pc = "skip_check"
    /\ w_pc' = IF p_changes.music_files = <<>> /\ p_changes.covers = <<>>
                    /\ p_changes.covers = <<>>
               THEN "next_chunk"
               ELSE IF w_allow_questions THEN "review" ELSE "accept"
    /\ UNCHANGED <<plannerVars, w_allow_questions, w_force_fsync, w_chunk, w_index,
                   w_path, w_log>>

\* "Do you want to review changes?"
WorkReview ==
    /\ UNCHANGED outsideWork
    /\ w_pc = "review"
    /\ \E answer \in {"yes", "no", "error"} :
          w_pc' = CASE answer = "yes" -> "ask_edit"
                    [] answer = "no" -> "accept"
                    [] OTHER -> "error"
    /\ UNCHANGED <<plannerVars, w_allow_questions, w_force_fsync, w_chunk, w_index,
                   w_path, w_log>>

\* print_changes_details, then "Do you want to edit changes?"
WorkAskEdit ==
    /\ UNCHANGED outsideWork
    /\ w_pc = "ask_edit"
    /\ \E answer \in {"yes", "no", "error"} :
          w_pc' = CASE answer = "yes" -> "edit"
                    [] answer = "no" -> "accept"
                    [] OTHER -> "error"
    /\ UNCHANGED <<plannerVars, w_allow_questions, w_force_fsync, w_chunk, w_index,
                   w_path, w_log>>

\* changes = edit_changes(changes, &args.output_path)?  The editor is closed
\* without saving (Ok(changes)), the text fails to parse (Err, which `?` returns
\* from work) or it parses (Ok of the edited list).
WorkEdit ==
    /\ UNCHANGED outsideWork
    /\ w_pc = "edit"
    /\ \E edited \in {"none", "invalid", "valid"} :
          /\ w_pc' = IF edited = "invalid" THEN "error" ELSE "review"
          /\ w_log' = IF edited = "invalid"
                      THEN Append(w_log, Entry("edit_invalid", <<>>))
                      ELSE w_log
          /\ p_changes' = IF edited = "valid"
                          THEN edit_changes(p_changes, EditedTargets(p_changes))
                          ELSE p_changes
    /\ UNCHANGED <<p_fs, p_file_changes, p_allowed, p_planned, w_allow_questions,
                   w_force_fsync, w_chunk, w_index, w_path>>

\* if !args.allow_questions || "Do you want to make changes?"
WorkAccept ==
    /\ UNCHANGED outsideWork
    /\ w_pc = "accept"
    /\ \/ /\ w_allow_questions
          /\ w_pc' = "error"
          /\ UNCHANGED w_log
       \/ \E answer \in BOOLEAN :
             LET asked == IF w_allow_questions
                          THEN Append(w_log, Entry(IF answer THEN "confirm_yes"
                                                             ELSE "confirm_no", <<>>))
                          ELSE w_log
             IN IF make_changes(w_allow_questions, answer)
                THEN /\ w_log' = Append(asked, Entry("apply", <<>>))
                     /\ w_pc' = "write"
                ELSE /\ w_log' = asked
                     /\ w_pc' = "next_chunk"
    /\ UNCHANGED <<plannerVars, w_allow_questions, w_force_fsync, w_chunk, w_index, w_path>>

\* How write_music_files produces the bytes of a target: io::copy from the
\* source file into the temporary file, whatever change.is_transcode says.
write_method(is_transcode) == "copy"

\* a run that goes on with the next step after a failed one
after_failure_going_on(stage, force_fsync) == next_stage(stage, force_fsync)

\* write_music_files(..)?; download_covers(..)?: the error leaves work
after_failure(stage, force_fsync) == "error"

\* write_music_files: one pass of its loop
WriteMusicFile ==
    /\ UNCHANGED outsideWork
    /\ w_pc = "write"
    /\ w_index < Len(p_changes.music_files)
    /\ LET change == p_changes.music_files[w_index + 1]
           created == Entry("create_dir", parent_or_empty(change.target))
           failed == Entry("write_failed", change.target)
       IN \/ /\ w_pc' = after_failure("write", w_force_fsync)
             /\ w_log' = Append(w_log, failed)
             /\ w_index' = 0
             /\ UNCHANGED p_fs
          \/ /\ w_pc' = after_failure("write", w_force_fsync)
             /\ p_fs' = p_fs \cup Ancestors(change.target)
             /\ w_log' = w_log \o <<created, failed>>
             /\ w_index' = 0
          \/ /\ change.source \in p_fs
             /\ p_fs' = p_fs \cup Ancestors(change.target) \cup {change.target}
             /\ w_log' = w_log \o <<created,
                                     Entry(write_method(change.is_transcode), change.source),
                                     Entry("write", change.target)>>
             /\ w_index' = w_index + 1
             /\ UNCHANGED w_pc
    /\ UNCHANGED <<p_file_changes, p_allowed, p_planned, p_changes, w_allow_questions,
                   w_force_fsync, w_chunk, w_path>>

\* download_covers: one pass of its loop (download_cover)
DownloadCover ==
    /\ UNCHANGED outsideWork
    /\ w_pc = "covers"
    /\ w_index < Len(p_changes.covers)
    /\ LET change == p_changes.covers[w_index + 1]
           failed == Entry("cover_failed", change.path)
       IN \/ /\ w_pc' = after_failure("covers", w_force_fsync)
             /\ w_log' = Append(w_log, failed)
             /\ w_index' = 0
             /\ UNCHANGED p_fs
          \/ /\ parent_or_empty(change.path) \in p_fs
             /\ p_fs' = p_fs \cup {change.path}
             /\ \E ok \in BOOLEAN :
                   IF ok
                   THEN /\ w_log' = Append(w_log, Entry("cover", change.path))
                        /\ w_index' = w_index + 1
                        /\ UNCHANGED w_pc
                   ELSE /\ w_log' = w_log \o <<Entry("cover", change.path), failed>>
                        /\ w_index' = 0
                        /\ w_pc' = after_failure("covers", w_force_fsync)
    /\ UNCHANGED <<p_file_changes, p_allowed, p_planned, p_changes, w_allow_questions,
                   w_force_fsync, w_chunk, w_path>>

\* cleanup, first loop: one entry is removed
CleanupRemove ==
    /\ UNCHANGED outsideWork
    /\ w_pc = "cleanup"
    /\ w_index < Len(p_changes.cleanups)
    /\ LET path == p_changes.cleanups[w_index + 1].path
       IN \/ /\ w_pc' = "error"
             /\ UNCHANGED <<p_fs, w_log, w_index>>
          \/ /\ path \in p_fs
             /\ p_fs' = Removed(p_fs, path)
             /\ w_log' = Append(w_log, Entry("remove", path))
             /\ w_index' = w_index + 1
             /\ UNCHANGED w_pc
    /\ UNCHANGED <<p_file_changes, p_allowed, p_planned, p_changes, w_allow_questions,
                   w_force_fsync, w_chunk, w_path>>

\* a walk that removes an empty parent whatever the user answers
remove_parent_unasked(fs, parent, answer) == parent \in fs /\ IsEmptyDir(fs, parent)

\* Path::exists(parent) && parent.read_dir()?.next().is_none() && Confirm..interact()?
remove_parent(fs, parent, answer) ==
    parent \in fs /\ IsEmptyDir(fs, parent) /\ answer = "yes"

\* cleanup, second loop: one step up the parents of an entry.  The question is
\* asked only for a parent that exists and is empty; its answer is logged.
CleanupParent ==
    /\ UNCHANGED outsideWork
    /\ w_pc = "cleanup_parents"
    /\ w_index < Len(p_changes.cleanups)
    /\ LET path == IF w_path = <<>> THEN p_changes.cleanups[w_index + 1].path ELSE w_path
           parent == parent_or_empty(path)
           asked == parent \in p_fs /\ IsEmptyDir(p_fs, parent)
       IN \E answer \in {"yes", "no", "error"} :
             LET answered == IF asked
                             THEN Append(w_log, Entry(IF answer = "yes"
                                                      THEN "confirm_remove_dir"
                                                      ELSE "decline_remove_dir", parent))
                             ELSE w_log
             IN IF asked /\ answer = "error"
                THEN /\ w_pc' = "error"
                     /\ UNCHANGED <<p_fs, w_log, w_index, w_path>>
                ELSE IF remove_parent(p_fs, parent, answer)
                THEN /\ p_fs' = Removed(p_fs, parent)
                     /\ w_log' = Append(answered, Entry("remove_dir", parent))
                     /\ w_path' = parent
                     /\ UNCHANGED <<w_index, w_pc>>
                ELSE /\ w_index' = w_index + 1
                     /\ w_path' = <<>>
                     /\ w_log' = answered
                     /\ UNCHANGED <<p_fs, w_pc>>
    /\ UNCHANGED <<p_file_changes, p_allowed, p_planned, p_changes, w_allow_questions,
                   w_force_fsync, w_chunk>>

\* fsync: one folder
FsyncFolder ==
    /\ UNCHANGED outsideWork
    /\ w_pc = "fsync"
    /\ w_index < Len(fsync_folders(p_changes))
    /\ LET folder == fsync_folders(p_changes)[w_index + 1]
       IN \/ /\ w_pc' = "error"
             /\ UNCHANGED <<w_log, w_index>>
          \/ /\ folder \in p_fs
             /\ w_log' = Append(w_log, Entry("fsync", folder))
             /\ w_index' = w_index + 1
             /\ UNCHANGED w_pc
    /\ UNCHANGED <<plannerVars, w_allow_questions, w_force_fsync, w_chunk, w_path>>

stage_length(stage, changes) ==
    CASE stage = "write" -> Len(changes.music_files)
      [] stage = "covers" -> Len(changes.covers)
      [] stage = "cleanup" -> Len(changes.cleanups)
      [] stage = "cleanup_parents" -> Len(changes.cleanups)
      [] stage = "fsync" -> Len(fsync_folders(changes))

\* a step has handled its whole list: work goes on with the next one
WorkStageDone ==
    /\ UNCHANGED outsideWork
    /\ w_pc \in {"write", "covers", "cleanup", "cleanup_parents", "fsync"}
    /\ w_index = stage_length(w_pc, p_changes)
    /\ w_pc' = next_stage(w_pc, w_force_fsync)
    /\ w_index' = 0
    /\ UNCHANGED <<plannerVars, w_allow_questions, w_force_fsync, w_chunk, w_path, w_log>>

NextWork ==
    \/ WorkStart
    \/ WorkNextChunk
    \/ WorkCalculate
    \/ WorkSkipCheck
    \/ WorkReview
    \/ WorkAskEdit
    \/ WorkEdit
    \/ WorkAccept
    \/ WriteMusicFile
    \/ DownloadCover
    \/ CleanupRemove
    \/ CleanupParent
    \/ FsyncFolder
    \/ WorkStageDone

StartWork == InitWork /\ InitHttp /\ IdleRelease /\ IdleMatcher /\ IdleFileChanges

Spec == StartWork /\ [][NextWork]_vars

\* the entries of the current chunk's log with the given operation
LogOf(op) == SelectSeq(w_log, LAMBDA e : e.op = op)

\* C1: for every chunk, no write, directory creation, download, deletion or
\* fsync happens before that chunk's ChangeList has been computed and, when
\* questions are allowed, before the user has confirmed it.
C1_NoMutationBeforeAcceptance ==
    \A i \in DOMAIN w_log :
        w_log[i].op \in DiskOps =>
            \E j \in 1..(i - 1) :
                /\ w_log[j].op = "calculate"
                /\ \A k \in (j + 1)..(i - 1) : w_log[k].op # "confirm_no"
                /\ w_allow_questions =>
                      \E k \in (j + 1)..(i - 1) : w_log[k].op = "confirm_yes"

\* C1 witness: in the second chunk of a run with questions, a file has been
\* written after the user confirmed that chunk's ChangeList.
C1_Witness ==
    /\ w_allow_questions
    /\ w_chunk = 2
    /\ LogOf("confirm_yes") # <<>>
    /\ LogOf("write") # <<>>

\* the position of an operation in the order work applies a ChangeList
rank(op) ==
    CASE op \in {"create_dir", "write"} -> 1
      [] op = "cover" -> 2
      [] op \in {"remove", "remove_dir"} -> 3
      [] op = "fsync" -> 4
      [] OTHER -> 0
ReachedRank(n) == \E i \in DOMAIN w_log : rank(w_log[i].op) >= n

\* C2: an accepted ChangeList is applied in a fixed order: the music-file
\* writes in list order, then the cover downloads in list order, then the
\* cleanup, then the fsync pass, which takes place only when fsync was
\* requested; a step starts only when the one before it has handled its whole
\* list.
C2_ApplyOrder ==
    LET writes == LogOf("write")
        covers == LogOf("cover")
        removes == LogOf("remove")
        syncs == LogOf("fsync")
    IN /\ \A i, j \in DOMAIN w_log :
             (i < j /\ rank(w_log[i].op) > 0 /\ rank(w_log[j].op) > 0) =>
                 rank(w_log[i].op) <= rank(w_log[j].op)
       /\ Len(writes) <= Len(p_changes.music_files)
       /\ \A k \in DOMAIN writes : writes[k].path = p_changes.music_files[k].target
       /\ Len(covers) <= Len(p_changes.covers)
       /\ \A k \in DOMAIN covers : covers[k].path = p_changes.covers[k].path
       /\ Len(removes) <= Len(p_changes.cleanups)
       /\ \A k \in DOMAIN removes : removes[k].path = p_changes.cleanups[k].path
       /\ ReachedRank(2) => Len(writes) = Len(p_changes.music_files)
       /\ ReachedRank(3) => Len(covers) = Len(p_changes.covers)
       /\ ReachedRank(4) => w_force_fsync /\ Len(removes) = Len(p_changes.cleanups)
       /\ (w_pc = "next_chunk" /\ LogOf("apply") # <<>>) =>
             /\ Len(writes) = Len(p_changes.music_files)
             /\ Len(covers) = Len(p_changes.covers)
             /\ Len(removes) = Len(p_changes.cleanups)
             /\ [k \in DOMAIN syncs |-> syncs[k].path]
                   = (IF w_force_fsync THEN fsync_folders(p_changes) ELSE <<>>)

\* C2 witness: a ChangeList with two writes, a cover and a cleanup entry has
\* been applied to the end, fsync pass included.
C2_Witness ==
    /\ w_pc = "next_chunk"
    /\ LogOf("apply") # <<>>
    /\ Len(LogOf("write")) >= 2
    /\ LogOf("cover") # <<>>
    /\ LogOf("remove") # <<>>
    /\ LogOf("fsync") # <<>>

\* C14: when the edited text fails to parse, the edit is aborted and the
\* pre-edit ChangeList stays the current plan of the review loop of work: the
\* run goes back to the review question with the plan it had.
C14_InvalidEditKeepsPlan ==
    [][(w_pc = "edit" /\ w_log' # w_log /\ w_log'[Len(w_log')].op = "edit_invalid")
          => (w_pc' = "review" /\ p_changes' = p_changes)]_vars

\* C15: after an edit pass that changed the targets, the covers and the cleanups
\* of the plan are the ones cover and cleanup derivation yields for the edited
\* music-file changes: every cover lies in the edited target folder of a track
\* and no cleanup entry is an edited target path.
C15_EditRederivesCoversAndCleanups ==
    [][(w_pc = "edit" /\ w_pc' = "review"
            /\ p_changes'.music_files # p_changes.music_files)
          => LET edited == p_changes'.music_files
                 derived == calculate_changes(edited, p_allowed, p_fs)
             IN /\ p_changes'.covers = derived.covers
                /\ p_changes'.cleanups = derived.cleanups
                /\ \A k \in DOMAIN p_changes'.covers :
                      \E i \in DOMAIN edited :
                         parent_or_empty(p_changes'.covers[k].path)
                            = parent_or_empty(edited[i].target)
                /\ \A k \in DOMAIN p_changes'.cleanups :
                      \A i \in DOMAIN edited :
                         p_changes'.cleanups[k].path # edited[i].target]_vars


\* how the bytes of the written targets were produced, in write order
write_methods == SelectSeq(w_log, LAMBDA e : e.op \in {"copy", "transcode"})

\* C22: a music-file change whose transcode flag is set is written by the
\* transcoder and its source bytes are not copied verbatim; a change whose flag
\* is not set is copied verbatim and the transcoder is not invoked.
C22_TranscodeFlagHonoured ==
    \A k \in DOMAIN write_methods :
        k <= Len(p_changes.music_files) =>
            /\ write_methods[k].path = p_changes.music_files[k].source
            /\ write_methods[k].op = (IF p_changes.music_files[k].is_transcode
                                      THEN "transcode" ELSE "copy")

\* the paths the ChangeList plans to write or download
listed_paths ==
    {p_changes.music_files[i].target : i \in DOMAIN p_changes.music_files}
        \cup {p_changes.covers[i].path : i \in DOMAIN p_changes.covers}

\* C26: no cleanup entry is equal to, or a directory above, a path the same
\* ChangeList plans to write or download, also when the files of nested source
\* directories are planned in place in one chunk.
C26_CleanupsSpareTargets ==
    p_planned =>
        \A k \in DOMAIN p_changes.cleanups, path \in listed_paths :
            ~IsPrefix(p_changes.cleanups[k].path, path)

\* the source was written to its target before position i of the log
written_before(source, i) ==
    \E k \in DOMAIN p_changes.music_files, j \in 1..(i - 1) :
        /\ p_changes.music_files[k].source = source
        /\ w_log[j] = Entry("write", p_changes.music_files[k].target)

\* C25: whatever categories are enabled, applying a ChangeList removes a source
\* music file (or a directory holding it) only after that file was written to
\* its target earlier in the same apply.
C25_SourceRemovedOnlyAfterWrite ==
    \A i \in DOMAIN w_log, c \in DOMAIN p_file_changes :
        (w_log[i].op = "remove" /\ IsPrefix(w_log[i].path, p_file_changes[c].source)) =>
            written_before(p_file_changes[c].source, i)

\* a write or a download of the current apply failed
apply_failed == \E i \in DOMAIN w_log : w_log[i].op \in {"write_failed", "cover_failed"}

\* C31: once a music-file write or a cover download has failed, the run has
\* stopped with an error, the cleanup of that apply was never entered (nothing
\* was removed), and every file written or downloaded before the failure is
\* still on the disk.
C31_FailureStopsBeforeCleanup ==
    apply_failed =>
        /\ w_pc = "error"
        /\ LogOf("remove") = <<>>
        /\ LogOf("remove_dir") = <<>>
        /\ \A i \in DOMAIN w_log :
              w_log[i].op \in {"write", "cover"} => w_log[i].path \in p_fs
        /\ \A c \in DOMAIN p_file_changes : p_file_changes[c].source \in p_fs

\* C31 witness: the second write of an accepted plan with cleanup entries
\* failed after the first file was written.
C31_Witness ==
    /\ w_pc = "error"
    /\ LogOf("write") # <<>>
    /\ LogOf("write_failed") # <<>>
    /\ p_changes.cleanups # <<>>
    /\ \A i \in DOMAIN w_log : w_log[i].op = "write" => w_log[i].path \in p_fs

\* C32: a chunk whose ChangeList has cleanup entries but neither music-file
\* changes nor covers is not skipped: from the emptiness test the run goes on to
\* the review or accept step of that chunk.
C32_CleanupOnlyChunkNotSkipped ==
    [][(/\ w_pc = "skip_check"
        /\ p_changes.cleanups # <<>>
        /\ p_changes.music_files = <<>>
        /\ p_changes.covers = <<>>) => w_pc' \in {"review", "accept"}]_vars

\* C36: no cleanup entry lies inside a directory that is itself a cleanup entry,
\* so that no removal of the list takes away the path of another entry.
C36_CleanupsNotNested ==
    p_planned =>
        \A k, l \in DOMAIN p_changes.cleanups :
            k # l => ~IsPrefix(p_changes.cleanups[k].path, p_changes.cleanups[l].path)

\* the path lies outside the tree of every cleanup entry
outside_cleanups(path) ==
    \A k \in DOMAIN p_changes.cleanups : ~IsPrefix(p_changes.cleanups[k].path, path)

\* the path is a proper ancestor of a cleanup entry's path
above_a_cleanup(path) ==
    \E k \in DOMAIN p_changes.cleanups :
        /\ IsPrefix(path, p_changes.cleanups[k].path)
        /\ path # p_changes.cleanups[k].path

\* the entry the user's answer for a parent left in the log, if the step asked
last_answer_for(log, parent) ==
    {log[i].op : i \in {n \in DOMAIN log :
                            /\ n >= Len(log) - 1
                            /\ log[n].path = parent
                            /\ log[n].op \in {"confirm_remove_dir", "decline_remove_dir"}}}

\* C21: a path outside the tree of every cleanup entry leaves the disk only as
\* a directory above a cleaned path that was empty when it was removed and
\* whose removal the user confirmed in that very step; and a step of the upward
\* walk whose parent is missing, not empty or declined removes nothing and
\* ends the walk of that entry.
C21_ParentsRemovedOnlyEmptyAndConfirmed ==
    [][/\ \A path \in p_fs \ p_fs' :
             outside_cleanups(path) =>
                 /\ w_pc = "cleanup_parents"
                 /\ above_a_cleanup(path)
                 /\ IsEmptyDir(p_fs, path)
                 /\ w_log' = w_log \o <<Entry("confirm_remove_dir", path),
                                         Entry("remove_dir", path)>>
       /\ (w_pc = "cleanup_parents" /\ w_pc' = "cleanup_parents"
              /\ w_index < Len(p_changes.cleanups)) =>
             LET path == IF w_path = <<>> THEN p_changes.cleanups[w_index + 1].path
                         ELSE w_path
                 parent == parent_or_empty(path)
             IN (\/ parent \notin p_fs
                 \/ ~IsEmptyDir(p_fs, parent)
                 \/ "decline_remove_dir" \in last_answer_for(w_log', parent)) =>
                    (p_fs' = p_fs /\ w_index' = w_index + 1 /\ w_path' = <<>>)]_vars

\* C21 witness: in one cleanup an emptied parent was removed on the user's
\* confirmation and another walk ended at a parent the user declined.
C21_Witness ==
    /\ LogOf("remove_dir") # <<>>
    /\ LogOf("confirm_remove_dir") # <<>>
    /\ LogOf("decline_remove_dir") # <<>>
    /\ \E i \in DOMAIN w_log : w_log[i].op = "remove_dir" /\ w_log[i].path \notin p_fs

(***************************************************************************)
(* File changes: get_file_changes (src/core/changes.rs), the target tags   *)
(* (src/discogs/create_tag.rs) and the target paths                        *)
(* (src/music_file/mod.rs).  Strings are sequences of character codes.     *)
(***************************************************************************)

\* Option<T> of the fields of a tag and of the catalog data
Nothing == <<>>
Some(v) == <<v>>
is_some(option) == option # <<>>
unwrap_or(option, default) == IF option = <<>> THEN default ELSE option[1]

\* Result<T>
Ok(v) == [ok |-> TRUE, value |-> v]
Err == [ok |-> FALSE, value |-> <<>>]

\* Ord::cmp of integers, of strings (byte-wise) and of Option<u32> (None first)
cmp_int(a, b) == IF a < b THEN "Less" ELSE IF a = b THEN "Equal" ELSE "Greater"
RECURSIVE cmp_str(_, _)
cmp_str(a, b) ==
    IF a = <<>> /\ b = <<>> THEN "Equal"
    ELSE IF a = <<>> THEN "Less"
    ELSE IF b = <<>> THEN "Greater"
    ELSE IF Head(a) # Head(b) THEN cmp_int(Head(a), Head(b))
    ELSE cmp_str(Tail(a), Tail(b))
cmp_option(a, b) ==
    IF a = <<>> /\ b = <<>> THEN "Equal"
    ELSE IF a = <<>> THEN "Less"
    ELSE IF b = <<>> THEN "Greater"
    ELSE cmp_int(a[1], b[1])

\* [..].join(separator)
RECURSIVE join(_, _)
join(list, separator) ==
    IF list = <<>> THEN <<>>
    ELSE IF Len(list) = 1 THEN list[1]
    ELSE list[1] \o separator \o join(Tail(list), separator)

\* str::trim (the only whitespace of the model is the space)
RECURSIVE trim_start(_)
trim_start(s) == IF s # <<>> /\ Head(s) = 32 THEN trim_start(Tail(s)) ELSE s
RECURSIVE trim_end(_)
trim_end(s) == IF s # <<>> /\ s[Len(s)] = 32 THEN trim_end(SubSeq(s, 1, Len(s) - 1)) ELSE s
trim(s) == trim_end(trim_start(s))

\* Display of an integer, and {:02}
RECURSIVE digits(_)
digits(n) == IF n < 10 THEN <<48 + n>> ELSE digits(n \div 10) \o <<48 + (n % 10)>>
display(n) == IF n < 0 THEN <<45>> \o digits(0 - n) ELSE digits(n)
pad2(n) == IF n < 10 THEN <<48>> \o digits(n) ELSE digits(n)

\* sanitize_with_options(name, Options { replacement: "-", .. }): the illegal
\* characters / ? < > \ : * | " become "-", and so does a name of dots only
illegal_characters == {47, 63, 60, 62, 92, 58, 42, 124, 34}
sanitize_path(name) ==
    IF name # <<>> /\ \A i \in DOMAIN name : name[i] = 46 THEN <<45>>
    ELSE [i \in DOMAIN name |-> IF name[i] \in illegal_characters THEN 45 ELSE name[i]]

\* PathExtensions::extension_or_empty: what follows the last dot of the file
\* name, unless the name has no dot or only a leading one
extension_or_empty(path) ==
    IF path = <<>> THEN <<>>
    ELSE LET name == path[Len(path)]
             dots == {i \in DOMAIN name : name[i] = 46}
             last == IF dots = {} THEN 0 ELSE CHOOSE i \in dots : \A j \in dots : j <= i
         IN IF last <= 1 THEN <<>> ELSE SubSeq(name, last + 1, Len(name))

\* the frames of a tag; comment stands for the frames outside ALLOWED_FRAMES
EmptyTag ==
    [title |-> Nothing, album |-> Nothing, album_artist |-> Nothing, artist |-> Nothing,
     year |-> Nothing, track_number |-> Nothing, total_tracks |-> Nothing,
     disc |-> Nothing, total_discs |-> Nothing, genre |-> Nothing,
     discogs_release |-> Nothing, comment |-> Nothing]

VARIOUS_ARTISTS == <<86, 97, 114, 105, 111, 117, 115, 32, 65, 114, 116, 105, 115, 116, 115>>

\* .map(|artist| (artist.name, artist.join.unwrap_or("&"))) and
\* .flat_map(|v| [v.0, v.1])
RECURSIVE artist_words(_)
artist_words(artists) ==
    IF artists = <<>> THEN <<>>
    ELSE <<artists[1].name, unwrap_or(artists[1].join, <<38>>)>> \o artist_words(Tail(artists))

\* DiscogsRelease::disc_to_total_tracks
disc_to_total_tracks(tracks) ==
    [disc \in {tracks[i].disc : i \in DOMAIN tracks} |->
        Cardinality({i \in DOMAIN tracks : tracks[i].disc = disc})]

\* create_tag_from_discogs_data: new_tag is the original tag cleared, then set
\* from the track and the release
create_tag_from_discogs_data(original_tag, discogs_track, discogs_release) ==
    LET album_artists == artist_words(discogs_release.artists)
        track_artists == IF is_some(discogs_track.artists)
                         THEN Some(artist_words(discogs_track.artists[1]))
                         ELSE Nothing
        total_tracks == disc_to_total_tracks(discogs_release.tracks)
        total_discs == Cardinality(DOMAIN total_tracks)
    IN [EmptyTag EXCEPT
          !.title = Some(discogs_track.title),
          !.album = Some(discogs_release.title),
          !.album_artist = Some(IF is_some(track_artists) THEN VARIOUS_ARTISTS
                                ELSE trim(join(album_artists, <<32>>))),
          !.artist = Some(trim(join(unwrap_or(track_artists, album_artists), <<32>>))),
          !.year = Some(discogs_release.year),
          !.track_number = Some(discogs_track.position),
          !.total_tracks = Some(total_tracks[discogs_track.disc]),
          !.disc = IF total_discs > 1 THEN Some(discogs_track.disc) ELSE Nothing,
          !.total_discs = IF total_discs > 1 THEN Some(total_discs) ELSE Nothing,
          !.genre = Some(join(unwrap_or(discogs_release.styles, <<>>), <<59, 32>>)),
          !.discogs_release = Some(discogs_release.uri)]

\* strip_redundant_fields: the frames of ALLOWED_FRAMES are copied
strip_redundant_fields(tag) == [tag EXCEPT !.comment = Nothing]

\* music_folder_path_for
music_folder_path_for(tag) ==
    LET album_artist == IF is_some(tag.album_artist) THEN tag.album_artist ELSE tag.artist
    IN IF ~is_some(album_artist) \/ ~is_some(tag.year) \/ ~is_some(tag.album) THEN Err
       ELSE Ok(<<sanitize_path(album_artist[1]),
                 sanitize_path(<<40>> \o display(tag.year[1]) \o <<41, 32>> \o tag.album[1])>>)

\* music_file_name_for
music_file_name_for(tag, with_extension) ==
    IF ~is_some(tag.track_number) \/ ~is_some(tag.title) THEN Err
    ELSE Ok(sanitize_path(
                (IF is_some(tag.disc) THEN pad2(tag.disc[1]) \o <<46>> ELSE <<>>)
                \o pad2(tag.track_number[1]) \o <<46, 32>> \o tag.title[1]
                \o <<46>> \o with_extension))

\* relative_path_for
relative_path_for(tag, with_extension) ==
    LET folder == music_folder_path_for(tag)
        name == music_file_name_for(tag, with_extension)
    IN IF ~folder.ok \/ ~name.ok THEN Err ELSE Ok(Append(folder.value, name.value))

\* MusicFile of this part: the path and the tag
TaggedFile(file_path, tag) == [file_path |-> file_path, tag |-> tag]
\* DiscogsTrackMatch
DiscogsTrackMatch(music_file, track) == [music_file |-> music_file, track |-> track]
\* MusicFileChange
MusicFileChange(source, target, is_transcode, discogs_release) ==
    [source |-> source, target |-> target, is_transcode |-> is_transcode,
     discogs_release |-> discogs_release]

FLAC == <<102, 108, 97, 99>>
M4A == <<109, 52, 97>>
MP3 == <<109, 112, 51>>

\* the target of one match item: Ok(MusicFile) or Err
target_of(music_file, discogs_info, output_path) ==
    LET source_tag == music_file.tag
        target_tag == IF is_some(discogs_info)
                      THEN create_tag_from_discogs_data(source_tag, discogs_info[1].track,
                                                        discogs_info[1].release)
                      ELSE strip_redundant_fields(source_tag)
        source_path == music_file.file_path
        source_extension == extension_or_empty(source_path)
        target_extension == IF source_extension = FLAC THEN M4A ELSE source_extension
        file_path ==
            IF is_some(output_path)
            THEN LET relative == relative_path_for(target_tag, target_extension)
                 IN IF relative.ok THEN Ok(output_path[1] \o relative.value) ELSE Err
            ELSE LET name == music_file_name_for(target_tag, target_extension)
                 IN IF name.ok THEN Ok(Append(parent_or_empty(source_path), name.value))
                    ELSE Err
    IN IF ~file_path.ok THEN Err
       ELSE Ok(MusicFileChange(music_file, TaggedFile(file_path.value, target_tag),
                               source_extension # target_extension,
                               IF is_some(discogs_info) THEN Some(discogs_info[1].release)
                               ELSE Nothing))

\* match_items: the files of every result, in order, each with its track and
\* release when the result is Matched
RECURSIVE match_items(_)
match_items(discogs_match_results) ==
    IF discogs_match_results = <<>> THEN <<>>
    ELSE LET head == Head(discogs_match_results)
         IN (IF head.matched
             THEN [i \in DOMAIN head.tracks_matching |->
                      [music_file |-> head.tracks_matching[i].music_file,
                       discogs_info |-> Some([track |-> head.tracks_matching[i].track,
                                              release |-> head.release])]]
             ELSE [i \in DOMAIN head.music_files |->
                      [music_file |-> head.music_files[i], discogs_info |-> Nothing]])
            \o match_items(Tail(discogs_match_results))

\* i32::MIN
I32_MIN == -2147483647 - 1

\* a comparator with the album as the first key
compare_album_first(lhs, rhs) ==
    LET lhs_album == unwrap_or(lhs.target.tag.album, <<>>)
        rhs_album == unwrap_or(rhs.target.tag.album, <<>>)
        lhs_year == unwrap_or(lhs.target.tag.year, I32_MIN)
        rhs_year == unwrap_or(rhs.target.tag.year, I32_MIN)
    IN IF lhs_album = rhs_album /\ lhs_year = rhs_year
       THEN cmp_option(lhs.target.tag.track_number, rhs.target.tag.track_number)
       ELSE IF lhs_album = rhs_album THEN cmp_int(lhs_year, rhs_year)
       ELSE cmp_str(lhs_album, rhs_album)

\* the closure given to result.sort_by
compare_file_changes(lhs, rhs) ==
    LET lhs_album == unwrap_or(lhs.target.tag.album, <<>>)
        rhs_album == unwrap_or(rhs.target.tag.album, <<>>)
        lhs_year == unwrap_or(lhs.target.tag.year, I32_MIN)
        rhs_year == unwrap_or(rhs.target.tag.year, I32_MIN)
    IN IF lhs_album = rhs_album /\ lhs_year = rhs_year
       THEN cmp_option(lhs.target.tag.track_number, rhs.target.tag.track_number)
       ELSE IF lhs_year = rhs_year THEN cmp_str(lhs_album, rhs_album)
       ELSE cmp_int(lhs_year, rhs_year)

\* result.sort_by(..), a stable sort: a change goes behind the changes that
\* compare Less to it and behind the equal ones that stood before it
sort_by(list) ==
    LET place(i) ==
            1 + Cardinality({j \in DOMAIN list :
                                \/ compare_file_changes(list[j], list[i]) = "Less"
                                \/ compare_file_changes(list[j], list[i]) = "Equal" /\ j < i})
    IN [k \in DOMAIN list |-> list[CHOOSE i \in DOMAIN list : place(i) = k]]

\* Bound on the number of match results given to get_file_changes.
MaxResults == 2

\* The catalog data of the runs: artist A with an empty join word; tracks
\* "x" and "y/z", of which the first (va = "some") or both (va = "all") carry
\* their own artist B; two discs in the last release.
DiscogsArtist(name, join_word) == [name |-> name, join |-> join_word]
PlanTrack(i, disc, position, own_artists) ==
    [title |-> IF i = 1 THEN <<120>> ELSE <<121, 47, 122>>, position |-> position,
     disc |-> disc, duration |-> None,
     artists |-> IF own_artists THEN Some(<<DiscogsArtist(<<66>>, Nothing)>>) ELSE Nothing]
PlanRelease(n, title, year, styles, tracks) ==
    [uri |-> <<114, 48 + n>>, title |-> title, year |-> year, styles |-> styles,
     artists |-> <<DiscogsArtist(<<65>>, Some(<<>>))>>, tracks |-> tracks]
PlanReleases ==
    << PlanRelease(1, <<98>>, 2000, Some(<< <<115>>, <<116>> >>),
                   <<PlanTrack(1, 1, 1, FALSE), PlanTrack(2, 1, 2, FALSE)>>),
       PlanRelease(2, <<97>>, 2001, Nothing,
                   <<PlanTrack(1, 1, 1, FALSE), PlanTrack(2, 1, 2, FALSE)>>),
       PlanRelease(3, <<97>>, 2000, Nothing,
                   <<PlanTrack(1, 1, 1, TRUE), PlanTrack(2, 1, 2, FALSE)>>),
       PlanRelease(4, <<98>>, 2001, Nothing,
                   <<PlanTrack(1, 1, 1, TRUE), PlanTrack(2, 2, 1, TRUE)>>) >>

\* A file as it is found before any import: the i-th file of folder "in<k>",
\* a flac or an mp3, with the title of its track, a track number and a comment
\* frame.
RawFile(k, i, title) ==
    TaggedFile(<< <<105, 110, 48 + k>>, <<48 + i, 46>> \o (IF i = 1 THEN FLAC ELSE MP3) >>,
               [EmptyTag EXCEPT !.title = Some(title), !.track_number = Some(i),
                                !.comment = Some(<<99>>)])

\* A file an earlier import organized: it carries the tag made from the track
\* and the release, at the path that tag gives (under the output path, or in
\* its folder "lib").
OrganizedFile(track, release, output_path) ==
    LET tag == create_tag_from_discogs_data(EmptyTag, track, release)
    IN TaggedFile(IF is_some(output_path)
                  THEN output_path[1] \o relative_path_for(tag, M4A).value
                  ELSE << <<108, 105, 98>>, music_file_name_for(tag, M4A).value >>,
                  tag)

\* Files of a group taken as is: a full tag, a tag without album and year, a
\* tag without track number.
AsIsFile(k, i) ==
    TaggedFile(<< <<105, 110, 48 + k>>, <<48 + i, 46>> \o MP3 >>,
               CASE i = 1 -> [EmptyTag EXCEPT !.title = Some(<<117>>), !.album = Some(<<99>>),
                                              !.artist = Some(<<65>>), !.year = Some(1999),
                                              !.track_number = Some(1),
                                              !.comment = Some(<<99>>)]
                 [] i = 2 -> [EmptyTag EXCEPT !.title = Some(<<117>>), !.artist = Some(<<65>>),
                                              !.track_number = Some(2)]
                 [] OTHER -> [EmptyTag EXCEPT !.title = Some(<<117>>), !.album = Some(<<99>>),
                                              !.artist = Some(<<65>>), !.year = Some(1999)])

\* the orders in which the files of a group are paired with the tracks of a
\* release (as many tracks as files)
TrackOrders == { <<1, 2>>, <<2, 1>> }

\* The results match_music_files may hand over as the k-th one: a release
\* matched with raw files in track order, the first and the third release also
\* with the files in the other order and with organized files, and groups taken
\* as is.
MatchResultsAt(k, output_path) ==
    UNION {
        {Matched([i \in DOMAIN order |->
                     DiscogsTrackMatch(RawFile(k, i, PlanReleases[r].tracks[order[i]].title),
                                       PlanReleases[r].tracks[order[i]])],
                 PlanReleases[r]) : order \in IF r \in {1, 3} THEN TrackOrders ELSE {<<1, 2>>}}
        \cup (IF r \in {1, 3}
              THEN {Matched([i \in 1..2 |->
                                DiscogsTrackMatch(OrganizedFile(PlanReleases[r].tracks[i],
                                                                PlanReleases[r], output_path),
                                                  PlanReleases[r].tracks[i])],
                            PlanReleases[r])}
              ELSE {})
        : r \in DOMAIN PlanReleases}
    \cup {Unmatched(<<AsIsFile(k, 1)>>), Unmatched(<<AsIsFile(k, 2), AsIsFile(k, 1)>>),
          Unmatched(<<AsIsFile(k, 3)>>)}

InitFileChanges ==
    /\ fc_output_path \in {Nothing, Some(<< <<111, 117, 116>> >>)}
    /\ \E n \in 1..MaxResults :
          fc_results \in {results \in [1..n -> UNION {MatchResultsAt(k, fc_output_path) :
                                                         k \in 1..n}] :
                             \A k \in 1..n : results[k] \in MatchResultsAt(k, fc_output_path)}
    /\ fc_pc = "start"
    /\ fc_items = <<>>
    /\ fc_result = <<>>

\* let match_items = discogs_match_results.iter().flat_map(..).collect_vec()
FileChangesCollect ==
    /\ UNCHANGED outsideFileChanges
    /\ fc_pc = "start"
    /\ fc_items' = match_items(fc_results)
    /\ fc_pc' = "loop"
    /\ UNCHANGED <<fc_results, fc_output_path, fc_result>>

\* for (music_file, discogs_info) in match_items { .. result.push(..) }; the
\* `?` of the tag and of the path return the error
FileChangesPush ==
    /\ UNCHANGED outsideFileChanges
    /\ fc_pc = "loop"
    /\ fc_items # <<>>
    /\ LET item == Head(fc_items)
           change == target_of(item.music_file, item.discogs_info, fc_output_path)
       IN IF change.ok
          THEN /\ fc_result' = Append(fc_result, change.value)
               /\ fc_items' = Tail(fc_items)
               /\ fc_pc' = "loop"
          ELSE /\ fc_pc' = "error"
               /\ UNCHANGED <<fc_result, fc_items>>
    /\ UNCHANGED <<fc_results, fc_output_path>>

\* fs::metadata(source_path)? fails
FileChangesMetadataFails ==
    /\ UNCHANGED outsideFileChanges
    /\ fc_pc = "loop"
    /\ fc_items # <<>>
    /\ fc_pc' = "error"
    /\ UNCHANGED <<fc_results, fc_output_path, fc_items, fc_result>>

\* result.sort_by(..); Ok(result)
FileChangesReturn ==
    /\ UNCHANGED outsideFileChanges
    /\ fc_pc = "loop"
    /\ fc_items = <<>>
    /\ fc_result' = sort_by(fc_result)
    /\ fc_pc' = "done"
    /\ UNCHANGED <<fc_results, fc_output_path, fc_items>>


\* the sort keys of a planned change
year_key(change) == unwrap_or(change.target.tag.year, I32_MIN)
album_key(change) == unwrap_or(change.target.tag.album, <<>>)
track_key(change) == change.target.tag.track_number

\* C12 as amended: the returned changes are ordered by (year, album) ascending
\* with the year as the primary key (a missing year counts as i32::MIN, a
\* missing album as the empty string), ties broken by track number (a missing
\* number first).
C12_SortedByYearAlbumTrack ==
    fc_pc = "done" =>
        \A i, j \in DOMAIN fc_result :
            i < j =>
                \/ year_key(fc_result[i]) < year_key(fc_result[j])
                \/ /\ year_key(fc_result[i]) = year_key(fc_result[j])
                   /\ \/ cmp_str(album_key(fc_result[i]), album_key(fc_result[j])) = "Less"
                      \/ /\ album_key(fc_result[i]) = album_key(fc_result[j])
                         /\ cmp_option(track_key(fc_result[i]), track_key(fc_result[j]))
                                \in {"Less", "Equal"}

\* C12 as claimed: the returned changes are ordered by (album, year) with the
\* album as the primary key, then the year, then the track number.
C12_SortedByAlbumYearTrack ==
    fc_pc = "done" =>
        \A i, j \in DOMAIN fc_result :
            i < j =>
                \/ cmp_str(album_key(fc_result[i]), album_key(fc_result[j])) = "Less"
                \/ /\ album_key(fc_result[i]) = album_key(fc_result[j])
                   /\ \/ year_key(fc_result[i]) < year_key(fc_result[j])
                      \/ /\ year_key(fc_result[i]) = year_key(fc_result[j])
                         /\ cmp_option(track_key(fc_result[i]), track_key(fc_result[j]))
                                \in {"Less", "Equal"}

\* C12 witness: the sort moved changes, and the returned list holds an earlier
\* year with the greater album title before a later year.
C12_Witness ==
    /\ fc_pc = "done"
    /\ [i \in DOMAIN fc_result |-> fc_result[i].source]
          # [i \in DOMAIN fc_result |-> match_items(fc_results)[i].music_file]
    /\ \E i, j \in DOMAIN fc_result :
          /\ i < j
          /\ year_key(fc_result[i]) < year_key(fc_result[j])
          /\ cmp_str(album_key(fc_result[j]), album_key(fc_result[i])) = "Less"

\* C13: planning files that already carry the target tags at their target
\* paths returns an empty list of music-file changes.
C13_OrganizedFilesPlanNothing ==
    (/\ fc_pc = "done"
     /\ Len(fc_result) = Len(match_items(fc_results))
     /\ \A i \in DOMAIN fc_result :
           /\ fc_result[i].target.tag = fc_result[i].source.tag
           /\ fc_result[i].target.file_path = fc_result[i].source.file_path)
        => fc_result = <<>>

\* the changes planned for the files of the k-th match result
changes_of_result(k) ==
    {i \in DOMAIN fc_result :
        \E m \in DOMAIN fc_results[k].tracks_matching :
            fc_results[k].tracks_matching[m].music_file = fc_result[i].source}

\* C17: when a matched track of a Matched release carries its own artists,
\* every planned file of that release gets album-artist "Various Artists"; the
\* files of one matched release get the same album-artist and the same target
\* folder.
C17_VariousArtistsForWholeRelease ==
    fc_pc = "done" =>
        \A k \in DOMAIN fc_results :
            fc_results[k].matched =>
                /\ (\E m \in DOMAIN fc_results[k].tracks_matching :
                        is_some(fc_results[k].tracks_matching[m].track.artists))
                      => \A i \in changes_of_result(k) :
                            fc_result[i].target.tag.album_artist = Some(VARIOUS_ARTISTS)
                /\ \A i, j \in changes_of_result(k) :
                      /\ fc_result[i].target.tag.album_artist
                            = fc_result[j].target.tag.album_artist
                      /\ parent_or_empty(fc_result[i].target.file_path)
                            = parent_or_empty(fc_result[j].target.file_path)


\* get_file_changes as a function of the list of match results: the changes of
\* the items in order, sorted (every target is known to be computable when the
\* planner has returned)
plan_of(items) ==
    sort_by([i \in DOMAIN items |->
                target_of(items[i].music_file, items[i].discogs_info, fc_output_path).value])

\* the same match results handed over in another order of the groups
reordered(results) ==
    {[k \in DOMAIN results |-> results[order[k]]] :
        order \in {f \in [DOMAIN results -> DOMAIN results] :
                       \A a, b \in DOMAIN results : a # b => f[a] # f[b]}}

\* the same items with the files supplied in the opposite order
reversed(items) == [i \in DOMAIN items |-> items[Len(items) + 1 - i]]

\* C23: the returned music_files sequence depends only on which changes are
\* planned: the same match results in any other order of the groups, or with the
\* files in the opposite order, give the same sequence.
C23_OrderIndependentOfInput ==
    fc_pc = "done" =>
        /\ \A results \in reordered(fc_results) : plan_of(match_items(results)) = fc_result
        /\ plan_of(reversed(match_items(fc_results))) = fc_result

\* C27: the target paths of the returned music-file changes are pairwise
\* distinct.
C27_TargetsPairwiseDistinct ==
    fc_pc = "done" =>
        \A i, j \in DOMAIN fc_result :
            i # j => fc_result[i].target.file_path # fc_result[j].target.file_path


NextHttp ==
    \/ GetOkSend
    \/ GetOkSuccess
    \/ GetOkTooManyRequests
    \/ GetOkWake
    \/ GetOkBail

StartHttp == InitHttp /\ IdleRelease /\ IdleMatcher /\ IdlePlanner /\ IdleWork /\ IdleFileChanges

SpecHttp == StartHttp /\ [][NextHttp]_vars

NextRelease == MatchRelease

StartRelease == InitRelease /\ InitHttp /\ IdleMatcher /\ IdlePlanner /\ IdleWork /\ IdleFileChanges

SpecRelease == StartRelease /\ [][NextRelease]_vars

NextMatcher ==
    \/ MatchNextGroup
    \/ MatchReturn
    \/ AutoSearchMaster
    \/ AutoFetchMaster
    \/ AutoSearchRelease
    \/ AutoTakeRelease
    \/ AutoNextParams
    \/ AutoExhausted
    \/ ManualEnter
    \/ ManualAskFirst
    \/ ManualFetchAndMatch
    \/ ManualAskAgain
    \/ MatchPush

StartMatcher == InitMatcher /\ InitHttp /\ IdleRelease /\ IdlePlanner /\ IdleWork /\ IdleFileChanges

SpecMatcher == StartMatcher /\ [][NextMatcher]_vars

NextPlanner == CalculateChanges

StartPlanner == InitPlanner /\ InitHttp /\ IdleRelease /\ IdleMatcher /\ IdleWork /\ IdleFileChanges

SpecPlanner == StartPlanner /\ [][NextPlanner]_vars

NextFileChanges ==
    \/ FileChangesCollect
    \/ FileChangesPush
    \/ FileChangesMetadataFails
    \/ FileChangesReturn

StartFileChanges ==
    InitFileChanges /\ InitHttp /\ IdleRelease /\ IdleMatcher /\ IdlePlanner /\ IdleWork

SpecFileChanges == StartFileChanges /\ [][NextFileChanges]_vars

====
